---- MODULE Spec2Model ----
(***************************************************************************)
(* Model of the attack-surface graph engine: discovery/node.py (Node),     *)
(* discovery/surface.py (AttackSurface) and the part of ai-discovery.py    *)
(* that drives them.                                                       *)
(*                                                                         *)
(* Node objects live in a pool `nodes` (a sequence indexed by object       *)
(* identity); `surface` is the list of object identities held by the      *)
(* AttackSurface.  Callers keep no reference to a Node that is not on the  *)
(* list: a Node constructed by an operation and not stored by it is        *)
(* dropped from the pool, and a Node the list let go of is left in the     *)
(* pool as a tombstone that no operation uses again.                       *)
(***************************************************************************)
EXTENDS Integers, Sequences, FiniteSets, TLC

\* ---------------------------------------------------------------- bounds
\* Number of Node objects that are ever stored in a list.
MaxNodes == 3
\* Number of operations of a run that change the list, a membership or a
\* processed flag (cache reads are not counted).
MaxOps == 3

\* Two of the sixteen members of the NodeType enumeration.
NodeTypes == {"domain", "ip"}

\* The item strings; their position in ItemOrder is used by hash.
ItemOrder == <<"a", "b">>
Items == {ItemOrder[i] : i \in DOMAIN ItemOrder}

\* The direction lists (sequences of SearchDirection ids, all with
\* count > 0) and correlation tokens the backend may answer with.
DirLists == {<<>>, <<1>>}
Tokens == {"t1"}
\* Direction identifiers a caller may pass to search.
DirIds == {1, 2}

VARIABLES
    nodes,        \* pool of Node objects: Seq of Node records
    surface,      \* the AttackSurface list: Seq of indices into nodes
    reviewQueue,  \* new_nodes of a "partly" search still awaiting review
    last,         \* record of the last operation and what it returned
    ops,          \* number of counted operations made so far
    call,         \* the run of ApiClient._execute_api_call under study
    stream,       \* a response body under study and what parsing it gave
    main,         \* the run of main() in ai-discovery.py: position and locals
    expand,       \* directions calls answered, the SearchDirection a caller
                  \* holds, the last search request sent
    query         \* a call of DiscoveryAIClient.__query__: position and locals

vars ==
    <<nodes, surface, reviewQueue, last, ops, call, stream, main, expand, query>>

\* The variables of the transport layer, which the graph operations leave
\* alone.
apiVars == <<call, stream>>

\* The variables that the operations of the graph leave alone.
otherVars == <<call, stream, main, expand, query>>

\* ------------------------------------------------------------------ Node

\* hash(frozenset(self)): modelled as the bit mask of the members, i.e. a
\* hash without collisions on the item universe.
RECURSIVE HashFrom(_, _)
HashFrom(S, i) ==
    IF i > Len(ItemOrder) THEN 0
    ELSE (IF ItemOrder[i] \in S THEN 2 ^ (i - 1) ELSE 0) + HashFrom(S, i + 1)

hash(S) == HashFrom(S, 1)

\* Node.__init__ together with the class-level defaults.  has_search_directions
\* is FALSE while the attribute _search_directions has never been assigned;
\* computed_for is a ghost field: the membership the cached directions were
\* requested for.
Node_init(type, items) ==
    [type |-> type,
     items |-> items,
     isAiProcessed |-> FALSE,
     has_search_directions |-> FALSE,
     search_directions |-> <<>>,
     count_id |-> "",
     items_hash |-> -1,
     computed_for |-> {},
     is_search_directions_updater_set |-> FALSE]

setSearchDirections(node, search_directions, count_id) ==
    [node EXCEPT !.has_search_directions = TRUE,
                 !.search_directions = search_directions,
                 !.count_id = count_id,
                 !.items_hash = hash(node.items)]

isSearchDirectionsRelevant_nohash(node) ==
    ~(node.search_directions = <<>>)

isSearchDirectionsRelevant(node) ==
    ~(node.search_directions = <<>> \/ node.items_hash # hash(node.items))

setSearchDirectionUpdater(node) ==
    [node EXCEPT !.is_search_directions_updater_set = TRUE]

\* ------------------------------------------------------------- ApiClient

\* What one directions call may come back with: a direction list and a
\* token, or an exception (ok = FALSE).
DirFailure == [ok |-> FALSE, directions |-> <<>>, count_id |-> ""]
DirResponses ==
    [ok : {TRUE}, directions : DirLists, count_id : Tokens] \cup {DirFailure}

\* ApiClient.getSearchDirections: no request for an empty node.
getSearchDirections(node, resp) ==
    IF node.items = {}
    THEN [ok |-> TRUE, directions |-> <<>>, count_id |-> ""]
    ELSE resp

\* --------------------------------------------------------- AttackSurface

\* AttackSurface._update_search_directions; raised = the call threw.
update_search_directions(node, resp) ==
    LET r == getSearchDirections(node, resp) IN
    IF r.ok
    THEN [node |-> [setSearchDirections(node, r.directions, r.count_id)
                        EXCEPT !.computed_for = node.items],
          raised |-> FALSE]
    ELSE [node |-> node, raised |-> TRUE]

\* The body shared by the properties searchDirections and count_id.  error
\* names the exception that leaves the property: AttributeError when
\* isSearchDirectionsRelevant reads a _search_directions that was never
\* assigned, ValueError from the raise statement of the property, ApiError
\* for whatever the updater's backend call raised.
refresh_if_stale(node, resp) ==
    IF ~node.has_search_directions
    THEN [node |-> node, raised |-> TRUE, refreshes |-> 0, error |-> "AttributeError"]
    ELSE IF isSearchDirectionsRelevant(node)
    THEN [node |-> node, raised |-> FALSE, refreshes |-> 0, error |-> ""]
    ELSE IF node.is_search_directions_updater_set
    THEN LET u == update_search_directions(node, resp) IN
         [node |-> u.node, raised |-> u.raised, refreshes |-> 1,
          error |-> IF u.raised THEN "ApiError" ELSE ""]
    ELSE [node |-> node, raised |-> TRUE, refreshes |-> 0, error |-> "ValueError"]

TypesOn(nds, srf) == {nds[srf[i]].type : i \in DOMAIN srf}

unique_items_first(nds, srf) ==
    [t \in {nds[srf[i]].type : i \in {j \in DOMAIN srf : j = 1}} |->
        nds[srf[1]].items]

unique_items_alltypes(nds, srf) ==
    [t \in TypesOn(nds, srf) |->
        UNION {nds[srf[i]].items : i \in DOMAIN srf}]

unique_items(nds, srf) ==
    [t \in TypesOn(nds, srf) |->
        UNION {nds[srf[i]].items : i \in {j \in DOMAIN srf : nds[srf[j]].type = t}}]


\* AttackSurface._filter_and_register_node applied to the object n of the
\* pool nds, for the list srf; resp is the backend's answer to the
\* directions call, should one be made; calls is the number of directions
\* calls made.
filter_and_register_node_nostrip(nds, srf, n, resp) ==
    LET node == nds[n] IN
    IF node.items # {}
    THEN LET r == update_search_directions(node, resp) IN
         IF r.raised
         THEN [nodes |-> nds, raised |-> TRUE, calls |-> 1]
         ELSE [nodes |-> [nds EXCEPT ![n] = setSearchDirectionUpdater(r.node)],
               raised |-> FALSE, calls |-> 1]
    ELSE [nodes |-> nds, raised |-> FALSE, calls |-> 0]

filter_and_register_node_reinit(nds, srf, n, resp) ==
    LET u == unique_items(nds, srf)
        node == nds[n]
        stripped == IF node.type \in DOMAIN u
                    THEN [node EXCEPT !.items = @ \ u[node.type],
                                      !.isAiProcessed = FALSE]
                    ELSE [node EXCEPT !.isAiProcessed = FALSE]
    IN IF stripped.items # {}
       THEN LET r == update_search_directions(stripped, resp) IN
            IF r.raised
            THEN [nodes |-> [nds EXCEPT ![n] = stripped], raised |-> TRUE,
                  calls |-> 1]
            ELSE [nodes |-> [nds EXCEPT ![n] = setSearchDirectionUpdater(r.node)],
                  raised |-> FALSE, calls |-> 1]
       ELSE [nodes |-> [nds EXCEPT ![n] = stripped], raised |-> FALSE, calls |-> 0]

filter_and_register_node(nds, srf, n, resp) ==
    LET u == unique_items(nds, srf)
        node == nds[n]
        stripped == IF node.type \in DOMAIN u
                    THEN [node EXCEPT !.items = @ \ u[node.type]]
                    ELSE node
    IN IF stripped.items # {}
       THEN LET r == update_search_directions(stripped, resp) IN
            IF r.raised
            THEN [nodes |-> [nds EXCEPT ![n] = stripped], raised |-> TRUE,
                  calls |-> 1]
            ELSE [nodes |-> [nds EXCEPT ![n] = setSearchDirectionUpdater(r.node)],
                  raised |-> FALSE, calls |-> 1]
       ELSE [nodes |-> [nds EXCEPT ![n] = stripped], raised |-> FALSE, calls |-> 0]

\* AttackSurface.append
list_append(nds, srf, n, resp) ==
    LET f == filter_and_register_node(nds, srf, n, resp) IN
    IF f.raised
    THEN [nodes |-> f.nodes, surface |-> srf, raised |-> TRUE, calls |-> f.calls]
    ELSE IF f.nodes[n].items # {}
    THEN [nodes |-> f.nodes, surface |-> Append(srf, n), raised |-> FALSE,
          calls |-> f.calls]
    ELSE [nodes |-> f.nodes, surface |-> srf, raised |-> FALSE, calls |-> f.calls]

\* AttackSurface.insert; pos in 0..Len(srf) is the number of elements that
\* stay in front of the inserted one.
list_insert(nds, srf, pos, n, resp) ==
    LET f == filter_and_register_node(nds, srf, n, resp) IN
    IF f.raised
    THEN [nodes |-> f.nodes, surface |-> srf, raised |-> TRUE, calls |-> f.calls]
    ELSE IF f.nodes[n].items # {}
    THEN [nodes |-> f.nodes,
          surface |-> SubSeq(srf, 1, pos) \o <<n>> \o SubSeq(srf, pos + 1, Len(srf)),
          raised |-> FALSE, calls |-> f.calls]
    ELSE [nodes |-> f.nodes, surface |-> srf, raised |-> FALSE, calls |-> f.calls]

\* AttackSurface.__setitem__ with an integer key and a Node value; key is a
\* valid position, counted from 1.
list_setitem(nds, srf, key, n, resp) ==
    LET f == filter_and_register_node(nds, srf, n, resp) IN
    IF f.raised
    THEN [nodes |-> f.nodes, surface |-> srf, raised |-> TRUE, calls |-> f.calls]
    ELSE [nodes |-> f.nodes, surface |-> [srf EXCEPT ![key] = n], raised |-> FALSE,
          calls |-> f.calls]

\* list.remove, which AttackSurface inherits: the first element that is the
\* argument or compares equal to it goes; Node inherits set.__eq__, so two
\* Nodes are equal when their memberships are.
list_remove(nds, srf, n) ==
    LET hits == {i \in DOMAIN srf : srf[i] = n \/ nds[srf[i]].items = nds[n].items} IN
    IF hits = {}
    THEN [surface |-> srf, raised |-> TRUE]
    ELSE LET k == CHOOSE i \in hits : \A j \in hits : i <= j IN
         [surface |-> SubSeq(srf, 1, k - 1) \o SubSeq(srf, k + 1, Len(srf)),
          raised |-> FALSE]

\* What one remote search may come back with: the groups of the response
\* in the order their types first occur (one group per type, each with at
\* least one value), or an exception.
Groups == [type : NodeTypes, items : SUBSET Items \ {{}}]
SearchFailure == [ok |-> FALSE, groups |-> <<>>]
SearchResponses ==
    {[ok |-> TRUE, groups |-> <<>>]}
    \cup {[ok |-> TRUE, groups |-> <<g>>] : g \in Groups}
    \cup {[ok |-> TRUE, groups |-> <<p[1], p[2]>>] :
            p \in {q \in Groups \X Groups : q[1].type # q[2].type}}
    \cup {SearchFailure}

\* ApiClient.search: the token is read through the count_id property
\* (tokResp answers a refresh made there), then the request is sent;
\* searched = the search request went out.
ApiClient_search(node, tokResp, sresp) ==
    IF node.items = {}
    THEN [node |-> node, raised |-> FALSE, groups |-> <<>>, searched |-> FALSE,
          error |-> ""]
    ELSE LET c == refresh_if_stale(node, tokResp) IN
         IF c.raised
         THEN [node |-> c.node, raised |-> TRUE, groups |-> <<>>, searched |-> FALSE,
               error |-> c.error]
         ELSE IF ~sresp.ok
         THEN [node |-> c.node, raised |-> TRUE, groups |-> <<>>, searched |-> TRUE,
               error |-> "ApiError"]
         ELSE [node |-> c.node, raised |-> FALSE, groups |-> sresp.groups,
               searched |-> TRUE, error |-> ""]

\* The loop of AttackSurface.search over new_nodes; resps are the answers to
\* the directions calls of the nodes, results is last_search_results.
RECURSIVE search_loop_all(_, _, _, _, _)
search_loop_all(nds, srf, groups, resps, results) ==
    IF groups = <<>>
    THEN [nodes |-> nds, surface |-> srf, raised |-> FALSE, results |-> results,
          calls |-> 0]
    ELSE LET nds0 == Append(nds, Node_init(Head(groups).type, Head(groups).items))
             n == Len(nds0)
             f == filter_and_register_node(nds0, srf, n, Head(resps))
         IN IF f.raised
            THEN [nodes |-> nds, surface |-> srf, raised |-> TRUE, results |-> results,
                  calls |-> f.calls]
            ELSE IF f.nodes[n].items # {}
            THEN [search_loop_all(f.nodes, Append(srf, n), Tail(groups), Tail(resps),
                                  Append(results, n))
                    EXCEPT !.calls = @ + f.calls]
            ELSE [search_loop_all(f.nodes, srf, Tail(groups), Tail(resps),
                                  Append(results, n))
                    EXCEPT !.calls = @ + f.calls]

RECURSIVE search_loop(_, _, _, _, _)
search_loop(nds, srf, groups, resps, results) ==
    IF groups = <<>>
    THEN [nodes |-> nds, surface |-> srf, raised |-> FALSE, results |-> results,
          calls |-> 0]
    ELSE LET nds0 == Append(nds, Node_init(Head(groups).type, Head(groups).items))
             n == Len(nds0)
             f == filter_and_register_node(nds0, srf, n, Head(resps))
         IN IF f.raised
            THEN [nodes |-> nds, surface |-> srf, raised |-> TRUE, results |-> results,
                  calls |-> f.calls]
            ELSE IF f.nodes[n].items # {}
            THEN [search_loop(f.nodes, Append(srf, n), Tail(groups), Tail(resps),
                              Append(results, n))
                    EXCEPT !.calls = @ + f.calls]
            ELSE [search_loop(nds, srf, Tail(groups), Tail(resps), results)
                    EXCEPT !.calls = @ + f.calls]

search_resolve_default(node, direction, readResp) ==
    LET r == refresh_if_stale(node, readResp)
    IN [node |-> r.node, raised |-> r.raised,
        error |-> IF r.raised THEN r.error ELSE ""]

\* The first statement of AttackSurface.search for an integer direction: the
\* direction is looked up in node.searchDirections (readResp answers a
\* refresh made there); no match ends the call with StopIteration.
search_resolve(node, direction, readResp) ==
    LET r == refresh_if_stale(node, readResp)
        found == \E i \in DOMAIN r.node.search_directions :
                    r.node.search_directions[i] = direction
    IN [node |-> r.node, raised |-> r.raised \/ ~found,
        error |-> IF r.raised THEN r.error
                  ELSE IF ~found THEN "StopIteration" ELSE ""]

\* AttackSurface.search
AttackSurface_search(nds, srf, direction, n, readResp, tokResp, sresp, resps) ==
    LET r == search_resolve(nds[n], direction, readResp) IN
    IF r.raised
    THEN [nodes |-> [nds EXCEPT ![n] = r.node], surface |-> srf, raised |-> TRUE,
          results |-> <<>>, groups |-> <<>>, searched |-> FALSE, error |-> r.error,
          calls |-> 0]
    ELSE LET p == ApiClient_search(r.node, tokResp, sresp)
             nds2 == [nds EXCEPT ![n] = p.node]
         IN IF p.raised
            THEN [nodes |-> nds2, surface |-> srf, raised |-> TRUE,
                  results |-> <<>>, groups |-> <<>>, searched |-> p.searched,
                  error |-> p.error, calls |-> 0]
            ELSE LET l == search_loop(nds2, srf, p.groups, resps, <<>>) IN
                 [nodes |-> l.nodes, surface |-> l.surface, raised |-> l.raised,
                  results |-> l.results, groups |-> p.groups,
                  searched |-> p.searched,
                  error |-> IF l.raised THEN "ApiError" ELSE "",
                  calls |-> l.calls]

\* A "partly" review that leaves an emptied Node on the list.
partly_review_keep(nds, srf, n, partly_answer) ==
    [nodes |-> [nds EXCEPT ![n].items = @ \cap partly_answer], surface |-> srf]

\* The partial-accept step of the discovery loop for one new node:
\* new_node.intersection_update(partly_answer), then surface.remove(new_node)
\* when nothing is left.
partly_review(nds, srf, n, partly_answer) ==
    LET nds1 == [nds EXCEPT ![n].items = @ \cap partly_answer] IN
    IF nds1[n].items = {}
    THEN [nodes |-> nds1, surface |-> list_remove(nds1, srf, n).surface]
    ELSE [nodes |-> nds1, surface |-> srf]

\* ------------------------------------------------------- inputs, history

\* The answers the backend can give to a read of node's cache: a real
\* answer only when the read sends a request.
RefreshAnswers(node) ==
    IF refresh_if_stale(node, DirFailure).refreshes = 1 /\ node.items # {}
    THEN DirResponses
    ELSE {DirFailure}

\* The answers the backend can give while object n is filtered and
\* registered: a real answer only when a directions request is sent.
RegisterAnswers(nds, srf, n) ==
    IF filter_and_register_node(nds, srf, n, DirFailure).raised
    THEN DirResponses
    ELSE {DirFailure}

\* One answer per new node of a search.
RespSeqs(nds, srf, groups) ==
    {q \in [DOMAIN groups -> DirResponses] :
        \A k \in DOMAIN groups :
            q[k] \in RegisterAnswers(
                        Append(nds, Node_init(groups[k].type, groups[k].items)),
                        srf, Len(nds) + 1)}

\* A Node argument: an object of the pool, or a Node constructed for the
\* call (it becomes object Len(nodes) + 1).
NodeArgs ==
    {[new |-> FALSE, id |-> n, type |-> nodes[n].type, items |-> nodes[n].items] :
        n \in {surface[i] : i \in DOMAIN surface}}
    \cup [new : {TRUE}, id : {Len(nodes) + 1}, type : NodeTypes, items : SUBSET Items]

Alloc(arg) ==
    IF arg.new THEN Append(nodes, Node_init(arg.type, arg.items)) ELSE nodes

OnSurface(srf, n) == \E i \in DOMAIN srf : srf[i] = n

\* A constructed Node that the operation did not store is unreachable.
Collect(nds, srf, arg) ==
    IF arg.new /\ ~OnSurface(srf, arg.id) THEN SubSeq(nds, 1, Len(nds) - 1) ELSE nds

\* What is left in the pool of a Node that is no longer on the list.
Tombstone(node) ==
    [Node_init("domain", {}) EXCEPT !.isAiProcessed = node.isAiProcessed]

Settle(nds, srf) ==
    [i \in DOMAIN nds |-> IF OnSurface(srf, i) THEN nds[i] ELSE Tombstone(nds[i])]

\* The cache of node was never filled, or was filled for another membership
\* than the present one.
Stale(node) == ~node.has_search_directions \/ node.computed_for # node.items

\* History of the last operation: its name, the object it was called on,
\* whether that object was constructed for the call, the groups of items it
\* was given (the incoming Node of an insertion, the response groups of a
\* search), the objects it stored (for a search: returned), whether it
\* raised and with which exception, for a cache read the number of calls
\* of the updater and whether the cache was stale when the read began, for
\* a search the direction identifier passed and whether the search request
\* went out, for an insertion or a search the number of directions calls
\* made to register Nodes, for a review the Node as it was before and the
\* approved items.
LastNone ==
    [op |-> "init", node |-> 0, new |-> FALSE, produced |-> <<>>, result |-> <<>>,
     raised |-> FALSE, refreshes |-> 0, stale |-> FALSE, error |-> "",
     direction |-> 0, searched |-> FALSE, calls |-> 0]

\* No call is in progress, the last result has been taken, and the run may
\* go on.
Idle == last = LastNone /\ ops < MaxOps

\* No call of the transport layer is under study.
CallNone ==
    [pc |-> "none", attempt |-> 0,
     outcome |-> [kind |-> "none", status |-> 0, has_retry_after |-> FALSE,
                  retry_after |-> 0, json |-> FALSE],
     sleeps |-> <<>>, history |-> <<>>, payload |-> 0,
     error |-> [kind |-> "", status |-> 0, attempts |-> 0, detail |-> ""]]
StreamNone ==
    [shape |-> "none", lines |-> <<>>, parsed |-> FALSE, result |-> <<>>,
     search_field |-> ""]

\* AttackSurface.__init__: an empty list.
InitGraph ==
    /\ nodes = <<>>
    /\ surface = <<>>
    /\ reviewQueue = <<>>
    /\ last = LastNone
    /\ ops = 0

\* No directions call was made, the caller holds no SearchDirection, no
\* search request has gone out.
ExpandNone ==
    [calls |-> <<>>,
     held |-> [id |-> 0, call |-> 0],
     request |-> [sent |-> FALSE, token |-> "", id |-> 0, dcall |-> 0, items |-> {}]]

\* No query of the Oracle is under study.
QueryNone ==
    [pc |-> "none", retries |-> 0,
     validator |-> [kind |-> "none", directions |-> <<>>, nodes |-> {}],
     attempt |-> 0, requests |-> 0, slept |-> 0, parsed |-> FALSE,
     response |-> [add |-> <<>>, partly |-> <<>>, skip |-> <<>>, nodes |-> {}],
     returned |-> [add |-> <<>>, partly |-> <<>>, skip |-> <<>>, nodes |-> {}],
     error |-> ""]

\* main() is not running; unreviewed holds the Nodes of new_nodes that the
\* review loop has not reached.
MainNone ==
    [pc |-> "none", node |-> 0, processed_counter |-> 0, add |-> <<>>,
     partly |-> <<>>, queue |-> <<>>, reviewed |-> 0, before |-> {},
     answer |-> {}, unreviewed |-> {}, error |-> "", reported |-> FALSE,
     no_results |-> FALSE, emitted |-> FALSE,
     snapshot |-> [t \in {} |-> <<>>], output |-> [t \in {} |-> <<>>]]

Init ==
    /\ InitGraph
    /\ call = CallNone
    /\ stream = StreamNone
    /\ main = MainNone
    /\ expand = ExpandNone
    /\ query = QueryNone

\* --------------------------------------------------------------- actions

\* surface.append(node)
DoAppend ==
    /\ Idle
    /\ UNCHANGED otherVars
    /\ ops' = ops + 1
    /\ reviewQueue = <<>>
    /\ \E arg \in NodeArgs :
        /\ arg.new => Len(nodes) < MaxNodes
        /\ \E resp \in RegisterAnswers(Alloc(arg), surface, arg.id) :
            LET r == list_append(Alloc(arg), surface, arg.id, resp)
                kept == Collect(r.nodes, r.surface, arg)
            IN /\ nodes' = kept
               /\ surface' = r.surface
               /\ last' = [LastNone EXCEPT
                            !.op = "append",
                            !.node = IF arg.id \in DOMAIN kept THEN arg.id ELSE 0,
                            !.new = arg.new,
                            !.produced = <<[type |-> arg.type, items |-> arg.items]>>,
                            !.result = IF Len(r.surface) > Len(surface)
                                       THEN <<arg.id>> ELSE <<>>,
                            !.raised = r.raised,
                            !.calls = r.calls]
    /\ UNCHANGED reviewQueue

\* surface.insert(pos, node)
DoInsert ==
    /\ Idle
    /\ UNCHANGED otherVars
    /\ ops' = ops + 1
    /\ reviewQueue = <<>>
    /\ \E arg \in NodeArgs, pos \in 0..Len(surface) :
        /\ arg.new => Len(nodes) < MaxNodes
        /\ \E resp \in RegisterAnswers(Alloc(arg), surface, arg.id) :
            LET r == list_insert(Alloc(arg), surface, pos, arg.id, resp)
                kept == Collect(r.nodes, r.surface, arg)
            IN /\ nodes' = kept
               /\ surface' = r.surface
               /\ last' = [LastNone EXCEPT
                            !.op = "insert",
                            !.node = IF arg.id \in DOMAIN kept THEN arg.id ELSE 0,
                            !.new = arg.new,
                            !.produced = <<[type |-> arg.type, items |-> arg.items]>>,
                            !.result = IF Len(r.surface) > Len(surface)
                                       THEN <<arg.id>> ELSE <<>>,
                            !.raised = r.raised,
                            !.calls = r.calls]
    /\ UNCHANGED reviewQueue

\* surface[key] = node
DoSetItem ==
    /\ Idle
    /\ UNCHANGED otherVars
    /\ ops' = ops + 1
    /\ reviewQueue = <<>>
    /\ \E arg \in NodeArgs, key \in DOMAIN surface :
        /\ arg.new => Len(nodes) < MaxNodes
        /\ \E resp \in RegisterAnswers(Alloc(arg), surface, arg.id) :
            LET r == list_setitem(Alloc(arg), surface, key, arg.id, resp)
                kept == Collect(r.nodes, r.surface, arg)
            IN /\ nodes' = Settle(kept, r.surface)
               /\ surface' = r.surface
               /\ last' = [LastNone EXCEPT
                            !.op = "setitem",
                            !.node = IF arg.id \in DOMAIN kept THEN arg.id ELSE 0,
                            !.new = arg.new,
                            !.produced = <<[type |-> arg.type, items |-> arg.items]>>,
                            !.result = IF r.raised THEN <<>> ELSE <<arg.id>>,
                            !.raised = r.raised,
                            !.calls = r.calls]
    /\ UNCHANGED reviewQueue

\* surface.search(direction, node) as the discovery loop calls it for a
\* direction of answer["add"] (mode "add") or answer["partly"] ("partly").
DoSearch ==
    /\ Idle
    /\ UNCHANGED otherVars
    /\ ops' = ops + 1
    /\ reviewQueue = <<>>
    /\ \E n \in {surface[i] : i \in DOMAIN surface},
          direction \in DirIds :
       \E readResp \in RefreshAnswers(nodes[n]) :
        LET r == search_resolve(nodes[n], direction, readResp) IN
        \E tokResp \in (IF r.raised THEN {DirFailure} ELSE RefreshAnswers(r.node)) :
        \E sresp \in (IF r.raised \/ r.node.items = {}
                      THEN {SearchFailure} ELSE SearchResponses) :
        \E resps \in RespSeqs(nodes, surface, sresp.groups) :
            \E s \in {AttackSurface_search(nodes, surface, direction, n,
                        readResp, tokResp, sresp, resps)} :
            \E mode \in (IF s.raised \/ s.results = <<>>
                          THEN {"add"} ELSE {"add", "partly"}) :
               /\ Len(s.nodes) <= MaxNodes
               /\ nodes' = s.nodes
               /\ surface' = s.surface
               /\ reviewQueue' = IF mode = "partly" /\ ~s.raised
                                 THEN s.results ELSE <<>>
               /\ last' = [LastNone EXCEPT
                            !.op = "search", !.node = n,
                            !.produced = s.groups,
                            !.result = s.results,
                            !.raised = s.raised,
                            !.error = s.error,
                            !.direction = direction,
                            !.searched = s.searched,
                            !.calls = s.calls]

\* The discovery loop reviews the next new node of a "partly" search; the
\* validator has accepted partly_answer, a list of items of that node.
DoPartlyReview ==
    /\ Idle
    /\ UNCHANGED otherVars
    /\ ops' = ops + 1
    /\ reviewQueue # <<>>
    /\ LET n == Head(reviewQueue) IN
       \E partly_answer \in SUBSET nodes[n].items :
        LET r == partly_review(nodes, surface, n, partly_answer) IN
        /\ nodes' = Settle(r.nodes, r.surface)
        /\ surface' = r.surface
        /\ last' = [LastNone EXCEPT
                     !.op = "partly", !.node = n,
                     !.produced = <<[type |-> nodes[n].type,
                                     items |-> nodes[n].items],
                                    [type |-> nodes[n].type,
                                     items |-> partly_answer]>>]
    /\ reviewQueue' = Tail(reviewQueue)

\* The Oracle call of a review raises: the discovery loop is left.
OracleRaises ==
    /\ Idle
    /\ UNCHANGED otherVars
    /\ ops' = ops + 1
    /\ reviewQueue # <<>>
    /\ reviewQueue' = <<>>
    /\ last' = [LastNone EXCEPT !.op = "oracle_raises", !.raised = TRUE]
    /\ UNCHANGED <<nodes, surface>>

\* surface.remove(node)
DoRemove ==
    /\ Idle
    /\ UNCHANGED otherVars
    /\ ops' = ops + 1
    /\ reviewQueue = <<>>
    /\ \E n \in {surface[i] : i \in DOMAIN surface} :
        LET r == list_remove(nodes, surface, n) IN
        /\ surface' = r.surface
        /\ nodes' = Settle(nodes, r.surface)
        /\ last' = [LastNone EXCEPT !.op = "remove", !.node = n, !.raised = r.raised]
    /\ UNCHANGED reviewQueue

\* node.isAiProcessed = True, for a node the loop selected from
\* unprocessedByAiNodes
DoMarkProcessed ==
    /\ Idle
    /\ UNCHANGED otherVars
    /\ ops' = ops + 1
    /\ reviewQueue = <<>>
    /\ \E i \in DOMAIN surface :
        /\ ~nodes[surface[i]].isAiProcessed
        /\ nodes' = [nodes EXCEPT ![surface[i]].isAiProcessed = TRUE]
        /\ last' = [LastNone EXCEPT !.op = "process", !.node = surface[i]]
    /\ UNCHANGED <<surface, reviewQueue>>

\* A read of node.searchDirections or node.count_id
DoRead ==
    /\ last = LastNone
    /\ UNCHANGED otherVars
    /\ reviewQueue = <<>>
    /\ \E n \in {surface[i] : i \in DOMAIN surface} :
       \E resp \in RefreshAnswers(nodes[n]) :
        LET r == refresh_if_stale(nodes[n], resp) IN
        /\ nodes' = [nodes EXCEPT ![n] = r.node]
        /\ last' = [LastNone EXCEPT
                     !.op = "read", !.node = n, !.raised = r.raised,
                     !.error = r.error,
                     !.refreshes = r.refreshes,
                     !.stale = Stale(nodes[n])]
    /\ UNCHANGED <<surface, reviewQueue, ops>>

\* The caller takes the result of the operation and goes on.
Return ==
    /\ last # LastNone
    /\ last' = LastNone
    /\ UNCHANGED <<nodes, surface, reviewQueue, ops, call, stream, main, expand, query>>

\* The whole list interface of AttackSurface.
Next ==
    \/ Return
    \/ DoAppend
    \/ DoInsert
    \/ DoSetItem
    \/ DoSearch
    \/ DoPartlyReview
    \/ OracleRaises
    \/ DoRemove
    \/ DoMarkProcessed
    \/ DoRead

Spec == Init /\ [][Next]_vars

\* The operations the discovery loop uses: seed/merge, expand, partial
\* accept, remove, the processed mark and the cache reads.
NextCore ==
    \/ Return
    \/ DoAppend
    \/ DoSearch
    \/ DoPartlyReview
    \/ OracleRaises
    \/ DoRemove
    \/ DoMarkProcessed
    \/ DoRead

SpecCore == Init /\ [][NextCore]_vars

\* ------------------------------------------- ApiClient._execute_api_call

\* ApiClient.MAX_RETIRES is 100 in the source; the model runs the same loop
\* with a smaller attempt budget.
MAX_RETIRES == 3
\* ApiClient.DEFAULT_RETRY_WAIT_TIME, in seconds.
DEFAULT_RETRY_WAIT_TIME == 10

\* Values of the Retry-After header of a 429 response: the backend sends a
\* number of seconds, which int() turns into that number.
RetryAfters == {0, 5, 10, 11, 25}

NoOutcome ==
    [kind |-> "none", status |-> 0, has_retry_after |-> FALSE, retry_after |-> 0,
     json |-> FALSE]

\* What requests.post followed by raise_for_status can do in one attempt:
\* hand back a response, or raise HTTPError for a 4xx/5xx status (the
\* response may carry Retry-After and may declare a JSON body), a Timeout, a
\* ConnectionError, a ChunkedEncodingError or some other exception.
Outcomes ==
    {[NoOutcome EXCEPT !.kind = "response", !.status = 200]}
    \cup {[NoOutcome EXCEPT !.kind = "HTTPError", !.status = 429,
                            !.has_retry_after = TRUE, !.retry_after = ra] :
            ra \in RetryAfters}
    \cup {[NoOutcome EXCEPT !.kind = "HTTPError", !.status = st, !.json = j] :
            st \in {429, 500}, j \in BOOLEAN}
    \cup {[NoOutcome EXCEPT !.kind = "HTTPError", !.status = 504]}
    \cup {[NoOutcome EXCEPT !.kind = k] :
            k \in {"Timeout", "ConnectionError", "ChunkedEncodingError", "Exception"}}

\* The for statement: attempts are numbered 1..MAX_RETIRES; attempt is the
\* number of attempts already made.
in_range_extra(attempt) == attempt < MAX_RETIRES + 1

in_range(attempt) == attempt < MAX_RETIRES

\* Which branch of the try statement an outcome takes.
handle_no504(outcome) ==
    IF outcome.kind = "response" THEN "return"
    ELSE IF outcome.kind = "HTTPError"
    THEN IF outcome.status = 429 /\ outcome.has_retry_after THEN "rate_limit"
         ELSE "raise_http"
    ELSE IF outcome.kind \in {"Timeout", "ConnectionError", "ChunkedEncodingError"}
    THEN "pass"
    ELSE "raise_unhandled"

handle_429any(outcome) ==
    IF outcome.kind = "response" THEN "return"
    ELSE IF outcome.kind = "HTTPError"
    THEN IF outcome.status = 429 THEN "rate_limit"
         ELSE IF outcome.status = 504 THEN "pass"
         ELSE "raise_http"
    ELSE IF outcome.kind \in {"Timeout", "ConnectionError", "ChunkedEncodingError"}
    THEN "pass"
    ELSE "raise_unhandled"

handle(outcome) ==
    IF outcome.kind = "response" THEN "return"
    ELSE IF outcome.kind = "HTTPError"
    THEN IF outcome.status = 429 /\ outcome.has_retry_after THEN "rate_limit"
         ELSE IF outcome.status = 504 THEN "pass"
         ELSE "raise_http"
    ELSE IF outcome.kind \in {"Timeout", "ConnectionError", "ChunkedEncodingError"}
    THEN "pass"
    ELSE "raise_unhandled"

\* The argument of the sleep made for a 429 response with Retry-After.
rate_limit_wait(retry_after) ==
    IF retry_after > DEFAULT_RETRY_WAIT_TIME
    THEN retry_after - DEFAULT_RETRY_WAIT_TIME
    ELSE retry_after

NoError == [kind |-> "", status |-> 0, attempts |-> 0, detail |-> ""]

\* A call begins: no attempt made yet.
InitRetry ==
    /\ InitGraph
    /\ stream = StreamNone
    /\ main = MainNone
    /\ expand = ExpandNone
    /\ query = QueryNone
    /\ call = [CallNone EXCEPT !.pc = "loop"]

\* One attempt: requests.post and raise_for_status.
Post ==
    /\ call.pc = "loop"
    /\ in_range(call.attempt)
    /\ \E outcome \in Outcomes :
        call' = [call EXCEPT !.pc = "handle",
                             !.attempt = @ + 1,
                             !.outcome = outcome,
                             !.sleeps = <<>>,
                             !.history = Append(@, outcome)]
    /\ UNCHANGED <<nodes, surface, reviewQueue, last, ops, stream, main, expand, query>>

\* return response
ReturnResponse ==
    /\ call.pc = "handle"
    /\ handle(call.outcome) = "return"
    /\ call' = [call EXCEPT !.pc = "returned", !.payload = call.attempt]
    /\ UNCHANGED <<nodes, surface, reviewQueue, last, ops, stream, main, expand, query>>

\* 429 with Retry-After: the rate-limit sleep
RateLimitSleep ==
    /\ call.pc = "handle"
    /\ handle(call.outcome) = "rate_limit"
    /\ call' = [call EXCEPT !.pc = "sleep",
                            !.sleeps = <<rate_limit_wait(call.outcome.retry_after)>>]
    /\ UNCHANGED <<nodes, surface, reviewQueue, last, ops, stream, main, expand, query>>

\* 504, Timeout, ConnectionError, ChunkedEncodingError: pass
Pass ==
    /\ call.pc = "handle"
    /\ handle(call.outcome) = "pass"
    /\ call' = [call EXCEPT !.pc = "sleep"]
    /\ UNCHANGED <<nodes, surface, reviewQueue, last, ops, stream, main, expand, query>>

\* Any other HTTP error: raise with the status code and the detail of a
\* JSON body or the text of the response.
RaiseHttpError ==
    /\ call.pc = "handle"
    /\ handle(call.outcome) = "raise_http"
    /\ call' = [call EXCEPT
                 !.pc = "raised",
                 !.error = [NoError EXCEPT
                             !.kind = "http",
                             !.status = call.outcome.status,
                             !.detail = IF call.outcome.json
                                        THEN "json" ELSE "text"]]
    /\ UNCHANGED <<nodes, surface, reviewQueue, last, ops, stream, main, expand, query>>

\* Any other exception: raise "Unhandled error occurred"
RaiseUnhandled ==
    /\ call.pc = "handle"
    /\ handle(call.outcome) = "raise_unhandled"
    /\ call' = [call EXCEPT !.pc = "raised",
                            !.error = [NoError EXCEPT !.kind = "unhandled"]]
    /\ UNCHANGED <<nodes, surface, reviewQueue, last, ops, stream, main, expand, query>>

\* time.sleep(DEFAULT_RETRY_WAIT_TIME) at the end of the loop body
DefaultSleep ==
    /\ call.pc = "sleep"
    /\ call' = [call EXCEPT !.pc = "loop",
                            !.sleeps = Append(@, DEFAULT_RETRY_WAIT_TIME)]
    /\ UNCHANGED <<nodes, surface, reviewQueue, last, ops, stream, main, expand, query>>

\* The loop is over: raise "Failed to execute API call after N attempts"
RaiseExhausted ==
    /\ call.pc = "loop"
    /\ ~in_range(call.attempt)
    /\ call' = [call EXCEPT !.pc = "raised",
                            !.error = [NoError EXCEPT !.kind = "exhausted",
                                                      !.attempts = MAX_RETIRES]]
    /\ UNCHANGED <<nodes, surface, reviewQueue, last, ops, stream, main, expand, query>>

NextRetry ==
    \/ Post
    \/ ReturnResponse
    \/ RateLimitSleep
    \/ Pass
    \/ RaiseHttpError
    \/ RaiseUnhandled
    \/ DefaultSleep
    \/ RaiseExhausted

SpecRetry == InitRetry /\ [][NextRetry]_vars

\* The interpreter goes on executing the call: a step that can be taken is
\* taken.
FairSpecRetry == SpecRetry /\ WF_vars(NextRetry)

\* ------------------------------------------ parsing of response streams

\* Number of lines of a response body.
MaxLines == 3

SeqsUpTo(S, n) == UNION {[1..k -> S] : k \in 0..n}

\* A line of a response body: empty, not JSON, or a JSON record.  A record
\* of a directions response has search_field_id and count; a record of a
\* search response has node_type, node_value and is_valid ("absent" when
\* the key is missing).
NoLine ==
    [kind |-> "empty", id |-> 0, count |-> 0, is_valid |-> "absent",
     node_type |-> "", node_value |-> {}]

DirectionLines ==
    {NoLine, [NoLine EXCEPT !.kind = "malformed"]}
    \cup {[NoLine EXCEPT !.kind = "record", !.id = i, !.count = c] :
            i \in DirIds, c \in {0, 3}}

SearchLines ==
    {NoLine, [NoLine EXCEPT !.kind = "malformed"]}
    \cup {[NoLine EXCEPT !.kind = "record", !.is_valid = v, !.node_type = t,
                         !.node_value = vs] :
            v \in {"true", "false", "absent"}, t \in NodeTypes,
            vs \in {{}, {"a"}, {"b"}}}

\* direction.search_field
SearchFields == {"domain_whois", "ip_ptr"}

\* if count > 0
keeps_zero(count) == count >= 0

keeps(count) == count > 0

\* The loop of getSearchDirections over response.iter_lines(); ret is the
\* list built so far.  json.loads raises on a line that is not JSON.
RECURSIVE parse_directions(_, _)
parse_directions(lines, ret) ==
    IF lines = <<>>
    THEN [ok |-> TRUE, directions |-> ret, nodes |-> <<>>]
    ELSE LET line == Head(lines) IN
         IF line.kind = "empty"
         THEN parse_directions(Tail(lines), ret)
         ELSE IF line.kind = "malformed"
         THEN [ok |-> FALSE, directions |-> <<>>, nodes |-> <<>>]
         ELSE IF keeps(line.count)
         THEN parse_directions(Tail(lines),
                               Append(ret, [id |-> line.id, count |-> line.count]))
         ELSE parse_directions(Tail(lines), ret)

\* search_results[key]: the dict keeps its keys in the order of insertion.
accumulate_overwrite(search_results, key, values) ==
    IF \E i \in DOMAIN search_results : search_results[i].type = key
    THEN [i \in DOMAIN search_results |->
            IF search_results[i].type = key
            THEN [search_results[i] EXCEPT !.items = values]
            ELSE search_results[i]]
    ELSE Append(search_results, [type |-> key, items |-> values])

accumulate(search_results, key, values) ==
    IF \E i \in DOMAIN search_results : search_results[i].type = key
    THEN [i \in DOMAIN search_results |->
            IF search_results[i].type = key
            THEN [search_results[i] EXCEPT !.items = @ \cup values]
            ELSE search_results[i]]
    ELSE Append(search_results, [type |-> key, items |-> values])

\* The loop of ApiClient.search over response.iter_lines().
RECURSIVE parse_search_lines(_, _)
parse_search_lines(lines, search_results) ==
    IF lines = <<>>
    THEN [ok |-> TRUE, search_results |-> search_results]
    ELSE LET line == Head(lines) IN
         IF line.kind = "empty"
         THEN parse_search_lines(Tail(lines), search_results)
         ELSE IF line.kind = "malformed"
         THEN [ok |-> FALSE, search_results |-> <<>>]
         ELSE IF line.is_valid = "true" /\ line.node_value # {}
         THEN parse_search_lines(Tail(lines),
                  accumulate(search_results, line.node_type, line.node_value))
         ELSE parse_search_lines(Tail(lines), search_results)

\* The parsing part of ApiClient.search: one Node per key of search_results,
\* labelled with the search field of the direction.
parse_search(lines, search_field) ==
    LET p == parse_search_lines(lines, <<>>) IN
    [ok |-> p.ok,
     directions |-> <<>>,
     nodes |-> [i \in DOMAIN p.search_results |->
                  [label |-> search_field,
                   type |-> p.search_results[i].type,
                   items |-> p.search_results[i].items]]]

\* A response body of one of the two call shapes has arrived.
InitStream ==
    /\ InitGraph
    /\ call = CallNone
    /\ main = MainNone
    /\ expand = ExpandNone
    /\ query = QueryNone
    /\ stream \in
        {[StreamNone EXCEPT !.shape = "directions", !.lines = ls] :
            ls \in SeqsUpTo(DirectionLines, MaxLines)}
        \cup {[StreamNone EXCEPT !.shape = "search", !.lines = ls,
                                 !.search_field = f] :
                ls \in SeqsUpTo(SearchLines, MaxLines), f \in SearchFields}

\* getSearchDirections parses the body.
ParseDirections ==
    /\ stream.shape = "directions"
    /\ ~stream.parsed
    /\ stream' = [stream EXCEPT !.parsed = TRUE,
                                !.result = parse_directions(stream.lines, <<>>)]
    /\ UNCHANGED <<nodes, surface, reviewQueue, last, ops, call, main, expand, query>>

\* search parses the body.
ParseSearch ==
    /\ stream.shape = "search"
    /\ ~stream.parsed
    /\ stream' = [stream EXCEPT !.parsed = TRUE,
                                !.result = parse_search(stream.lines,
                                                        stream.search_field)]
    /\ UNCHANGED <<nodes, surface, reviewQueue, last, ops, call, main, expand, query>>

NextStream ==
    \/ ParseDirections
    \/ ParseSearch

SpecStream == InitStream /\ [][NextStream]_vars

\* ------------------------------------------- a Node outside any surface

\* Node(label, type, items): the caller constructs a Node and keeps it.
NodeNew ==
    /\ last = LastNone
    /\ nodes = <<>>
    /\ \E t \in NodeTypes, items \in SUBSET Items :
        nodes' = <<Node_init(t, items)>>
    /\ UNCHANGED <<surface, reviewQueue, last, ops, call, stream, main, expand, query>>

\* node.setSearchDirections(search_directions, count_id), called directly.
NodeSetSearchDirections ==
    /\ last = LastNone
    /\ nodes # <<>>
    /\ \E d \in DirLists, c \in Tokens :
        nodes' = [nodes EXCEPT ![1] = setSearchDirections(@, d, c)]
    /\ UNCHANGED <<surface, reviewQueue, last, ops, call, stream, main, expand, query>>

\* node.add(item) / node.discard(item): the set operations Node inherits.
NodeMutate ==
    /\ last = LastNone
    /\ nodes # <<>>
    /\ \E x \in Items :
        \/ nodes' = [nodes EXCEPT ![1].items = @ \cup {x}]
        \/ nodes' = [nodes EXCEPT ![1].items = @ \ {x}]
    /\ UNCHANGED <<surface, reviewQueue, last, ops, call, stream, main, expand, query>>

\* A read of node.searchDirections or node.count_id; no updater was ever
\* registered, so no backend call can be made.
NodeRead ==
    /\ last = LastNone
    /\ nodes # <<>>
    /\ LET r == refresh_if_stale(nodes[1], DirFailure) IN
        /\ nodes' = [nodes EXCEPT ![1] = r.node]
        /\ last' = [LastNone EXCEPT
                     !.op = "read", !.node = 1, !.raised = r.raised,
                     !.error = r.error, !.refreshes = r.refreshes]
    /\ UNCHANGED <<surface, reviewQueue, ops, call, stream, main, expand, query>>

NextNode ==
    \/ NodeNew
    \/ NodeSetSearchDirections
    \/ NodeMutate
    \/ NodeRead
    \/ Return

SpecNode == Init /\ [][NextNode]_vars

\* ---------------------------------------------- main() of ai-discovery.py

\* The iteration budget of a run.
MAX_NODES_TO_PROCESS == 2

\* Length of each of the lists "add" and "partly" of an answer of the Oracle.
MaxAnswer == 1

\* AttackSurface.unprocessedByAiNodes: a new list of the Nodes of the list
\* that are not processed, in the order of the list.
unprocessedByAiNodes_all(nds, srf) == srf

unprocessedByAiNodes(nds, srf) ==
    SelectSeq(srf, LAMBDA n : ~nds[n].isAiProcessed)

\* The rank of a type in custom_order of selectNodeToProcess.
custom_order(type) == IF type = "domain" THEN 9 ELSE 11

\* selectNodeToProcess: the first Node of the lowest rank, unless that one
\* is a domain Node: then the first domain Node labelled as mail servers or
\* name servers of a domain if the list has one.  Labels are not part of the
\* state, so any domain Node of the list may be the labelled one.
selectNodeToProcess(nds, queue) ==
    LET idx == {i \in DOMAIN queue :
                    \A j \in DOMAIN queue :
                        custom_order(nds[queue[i]].type) <= custom_order(nds[queue[j]].type)}
        first == queue[CHOOSE i \in idx : \A j \in idx : i <= j]
    IN IF nds[first].type = "domain"
       THEN {queue[i] : i \in {j \in DOMAIN queue : nds[queue[j]].type = "domain"}}
       ELSE {first}

\* list(items) for a set: its elements once each, in the order the set
\* happens to iterate them.
ListsOf(S) ==
    {q \in [1..Cardinality(S) -> S] : {q[i] : i \in DOMAIN q} = S}

\* AttackSurface.unique_items_to_dict: the mappings it may return, one per
\* iteration order of the sets of _unique_items.
unique_items_to_dict(nds, srf) ==
    LET u == unique_items(nds, srf) IN
    {d \in [DOMAIN u -> UNION {ListsOf(u[t]) : t \in DOMAIN u}] :
        \A t \in DOMAIN u : d[t] \in ListsOf(u[t])}

\* Position of an item in the order of str.
ItemRank(x) == CHOOSE i \in DOMAIN ItemOrder : ItemOrder[i] = x

list_sort_none(l) == l

\* l.sort() of main: the same elements in ascending order.
list_sort(l) ==
    CHOOSE q \in [DOMAIN l -> {l[i] : i \in DOMAIN l}] :
        /\ \A x \in {l[i] : i \in DOMAIN l} :
            Cardinality({i \in DOMAIN q : q[i] = x})
                = Cardinality({i \in DOMAIN l : l[i] = x})
        /\ \A i, j \in DOMAIN q : i < j => ItemRank(q[i]) <= ItemRank(q[j])

except_only_RuntimeError(error) ==
    IF error \in {"OracleError"} THEN "report" ELSE "crashed"

\* except Exception of main: where the run goes on when error is raised
\* inside the try block.
except_Exception(error) == "report"

\* An exception leaves the try block.
Fail(error) == [main EXCEPT !.pc = except_Exception(error), !.error = error]

\* The ids of the directions of a Node.
DirectionIds(node) ==
    {node.search_directions[i] : i \in DOMAIN node.search_directions}

\* The zero-direction branch of the loop, which does not mark the Node.
zero_directions_skip(node) == node

\* The zero-direction branch of the loop: the Node is marked processed.
zero_directions(node) == [node EXCEPT !.isAiProcessed = TRUE]

\* main() starts on an empty graph, with or without --no-results.
InitMain ==
    /\ InitGraph
    /\ call = CallNone
    /\ stream = StreamNone
    /\ main \in {[MainNone EXCEPT !.pc = "start", !.no_results = b] : b \in BOOLEAN}
    /\ expand = ExpandNone
    /\ query = QueryNone

\* surface.append(Node(root_domain, NodeType.DOMAIN, [root_domain])), before
\* the try block.
MainSeed ==
    /\ main.pc = "start"
    /\ LET nds0 == Append(nodes, Node_init("domain", {ItemOrder[1]}))
           n == Len(nds0)
       IN \E resp \in RegisterAnswers(nds0, surface, n) :
           LET r == list_append(nds0, surface, n, resp) IN
           /\ nodes' = IF OnSurface(r.surface, n) THEN r.nodes ELSE nodes
           /\ surface' = r.surface
           /\ main' = [main EXCEPT
                        !.pc = IF r.raised THEN "crashed" ELSE "loop",
                        !.error = IF r.raised THEN "ApiError" ELSE ""]
    /\ UNCHANGED <<reviewQueue, last, ops, call, stream, expand, query>>

\* The condition of the while loop and the choice of the next Node.
LoopCheck ==
    /\ main.pc = "loop"
    /\ LET queue == unprocessedByAiNodes(nodes, surface) IN
       IF Len(queue) > 0 /\ main.processed_counter < MAX_NODES_TO_PROCESS
       THEN \E n \in selectNodeToProcess(nodes, queue) :
                main' = [main EXCEPT !.pc = "selected", !.node = n, !.queue = queue,
                                     !.reviewed = 0, !.before = {}, !.answer = {}]
       ELSE main' = [main EXCEPT !.pc = "output", !.node = 0, !.queue = queue,
                                 !.reviewed = 0, !.before = {}, !.answer = {}]
    /\ UNCHANGED <<nodes, surface, reviewQueue, last, ops, call, stream, expand, query>>

\* len(node.searchDirections) == 0: the Node is marked and the loop goes on
\* without counting it.
ReadDirections ==
    /\ main.pc = "selected"
    /\ \E resp \in RefreshAnswers(nodes[main.node]) :
        LET r == refresh_if_stale(nodes[main.node], resp) IN
        IF r.raised
        THEN /\ nodes' = [nodes EXCEPT ![main.node] = r.node]
             /\ main' = Fail(r.error)
        ELSE IF Len(r.node.search_directions) = 0
        THEN /\ nodes' = [nodes EXCEPT ![main.node] = zero_directions(r.node)]
             /\ main' = [main EXCEPT !.pc = "loop"]
        ELSE /\ nodes' = [nodes EXCEPT ![main.node] = r.node]
             /\ main' = [main EXCEPT !.pc = "ask"]
    /\ UNCHANGED <<surface, reviewQueue, last, ops, call, stream, expand, query>>

\* ai.searchDirectionsQuery: an answer the validator accepts (every id is a
\* direction of the Node), or an exception after the retries.
AskOracle ==
    /\ main.pc = "ask"
    /\ \/ main' = Fail("OracleError")
       \/ \E add, partly \in SeqsUpTo(DirectionIds(nodes[main.node]), MaxAnswer) :
            main' = [main EXCEPT !.pc = "add", !.add = add, !.partly = partly]
    /\ UNCHANGED <<nodes, surface, reviewQueue, last, ops, call, stream, expand, query>>

\* surface.search(int(direction), node) for the next direction of
\* answer["add"].
SearchAdd ==
    /\ main.pc = "add"
    /\ main.add # <<>>
    /\ LET n == main.node
           direction == Head(main.add)
       IN
       \E readResp \in RefreshAnswers(nodes[n]) :
        LET r == search_resolve(nodes[n], direction, readResp) IN
        \E tokResp \in (IF r.raised THEN {DirFailure} ELSE RefreshAnswers(r.node)) :
        \E sresp \in (IF r.raised \/ r.node.items = {}
                      THEN {SearchFailure} ELSE SearchResponses) :
        \E resps \in RespSeqs(nodes, surface, sresp.groups) :
            \E s \in {AttackSurface_search(nodes, surface, direction, n,
                        readResp, tokResp, sresp, resps)} :
               /\ Len(s.nodes) <= MaxNodes
               /\ nodes' = s.nodes
               /\ surface' = s.surface
               /\ main' = IF s.raised THEN Fail(s.error)
                          ELSE [main EXCEPT !.add = Tail(main.add)]
    /\ UNCHANGED <<reviewQueue, last, ops, call, stream, expand, query>>

\* new_nodes = surface.search(int(direction), node) for the next direction
\* of answer["partly"].
SearchPartly ==
    /\ main.pc = "add"
    /\ main.add = <<>>
    /\ main.partly # <<>>
    /\ LET n == main.node
           direction == Head(main.partly)
       IN
       \E readResp \in RefreshAnswers(nodes[n]) :
        LET r == search_resolve(nodes[n], direction, readResp) IN
        \E tokResp \in (IF r.raised THEN {DirFailure} ELSE RefreshAnswers(r.node)) :
        \E sresp \in (IF r.raised \/ r.node.items = {}
                      THEN {SearchFailure} ELSE SearchResponses) :
        \E resps \in RespSeqs(nodes, surface, sresp.groups) :
            \E s \in {AttackSurface_search(nodes, surface, direction, n,
                        readResp, tokResp, sresp, resps)} :
               /\ Len(s.nodes) <= MaxNodes
               /\ nodes' = s.nodes
               /\ surface' = s.surface
               /\ reviewQueue' = IF s.raised THEN <<>> ELSE s.results
               /\ main' = IF s.raised THEN Fail(s.error)
                          ELSE [main EXCEPT
                                 !.partly = Tail(main.partly),
                                 !.unreviewed =
                                    {s.results[i] : i \in DOMAIN s.results},
                                 !.pc = IF s.results = <<>> THEN "add" ELSE "review"]
    /\ UNCHANGED <<last, ops, call, stream, expand, query>>

\* One turn of the loop over new_nodes: ai.partlyAddQuery returns a list the
\* validator accepts (items of the new Node) or raises; the Node is
\* intersected with the answer and removed when nothing is left.
Review ==
    /\ main.pc = "review"
    /\ LET n == Head(reviewQueue) IN
       \/ /\ main' = Fail("OracleError")
          /\ reviewQueue' = <<>>
          /\ UNCHANGED <<nodes, surface>>
       \/ \E partly_answer \in SUBSET nodes[n].items :
            LET r == partly_review(nodes, surface, n, partly_answer) IN
            /\ nodes' = Settle(r.nodes, r.surface)
            /\ surface' = r.surface
            /\ reviewQueue' = Tail(reviewQueue)
            /\ main' = [main EXCEPT
                         !.reviewed = n, !.before = nodes[n].items,
                         !.answer = partly_answer,
                         !.unreviewed = @ \ {n},
                         !.pc = IF Tail(reviewQueue) = <<>> THEN "add" ELSE "review"]
    /\ UNCHANGED <<last, ops, call, stream, expand, query>>

\* node.isAiProcessed = True; processed_counter += 1
Mark ==
    /\ main.pc = "add"
    /\ main.add = <<>>
    /\ main.partly = <<>>
    /\ nodes' = [nodes EXCEPT ![main.node].isAiProcessed = TRUE]
    /\ main' = [main EXCEPT !.pc = "loop",
                            !.processed_counter = main.processed_counter + 1]
    /\ UNCHANGED <<surface, reviewQueue, last, ops, call, stream, expand, query>>

\* except Exception as e: output_progress("An error occurred", ...)
Report ==
    /\ main.pc = "report"
    /\ main' = [main EXCEPT !.pc = "output", !.reported = TRUE]
    /\ UNCHANGED <<nodes, surface, reviewQueue, last, ops, call, stream, expand, query>>

\* The output step: unless --no-results was given, the snapshot is taken,
\* each of its lists is sorted, and the mapping is printed.
Output ==
    /\ main.pc = "output"
    /\ IF main.no_results
       THEN main' = [main EXCEPT !.pc = "done"]
       ELSE \E d \in unique_items_to_dict(nodes, surface) :
            main' = [main EXCEPT
                      !.pc = "done",
                      !.snapshot = d,
                      !.output = [t \in DOMAIN d |-> list_sort(d[t])],
                      !.emitted = TRUE]
    /\ UNCHANGED <<nodes, surface, reviewQueue, last, ops, call, stream, expand, query>>

NextMain ==
    \/ MainSeed
    \/ LoopCheck
    \/ ReadDirections
    \/ AskOracle
    \/ SearchAdd
    \/ SearchPartly
    \/ Review
    \/ Mark
    \/ Report
    \/ Output

SpecMain == InitMain /\ [][NextMain]_vars

\* Every call of the run returns or raises, and the run goes on.
FairSpecMain == SpecMain /\ WF_vars(NextMain)

\* ------------------------------------------ the correlation token of search

\* Number of directions calls the backend answers in a run.
MaxCalls == 3

\* The count_id the backend returns with its k-th answer to a directions
\* call: one identifier per list of directions it has computed.
TokenNames == <<"c1", "c2", "c3", "c4", "c5">>

\* The directions call that returned the token, 0 for no token.
CallOf(token) ==
    IF \E k \in DOMAIN TokenNames : TokenNames[k] = token
    THEN CHOOSE k \in DOMAIN TokenNames : TokenNames[k] = token
    ELSE 0

\* What a directions call may come back with when the backend has answered
\* k of them.
TokenResponses(k) ==
    {[ok |-> TRUE, directions |-> d, count_id |-> TokenNames[k + 1]] :
        d \in DirLists} \cup {DirFailure}

\* The answers the backend can give to a read of node's cache when it has
\* answered k directions calls.
TokenAnswers(node, k) ==
    IF refresh_if_stale(node, DirFailure).refreshes = 1 /\ node.items # {}
    THEN TokenResponses(k)
    ELSE {DirFailure}

\* The log of directions calls after a read of the cache turned before
\* into after: a call that was answered is added with the membership it was
\* made for.
Logged(log, before, after) ==
    IF after.count_id # before.count_id /\ CallOf(after.count_id) = Len(log) + 1
    THEN Append(log, after.items)
    ELSE log

\* AttackSurface.search called with a SearchDirection: the lookup in
\* node.searchDirections is skipped.
AttackSurface_search_object(nds, srf, n, tokResp, sresp, resps) ==
    LET p == ApiClient_search(nds[n], tokResp, sresp)
        nds2 == [nds EXCEPT ![n] = p.node]
    IN IF p.raised
       THEN [nodes |-> nds2, surface |-> srf, raised |-> TRUE,
             results |-> <<>>, groups |-> <<>>, searched |-> p.searched,
             error |-> p.error, calls |-> 0]
       ELSE LET l == search_loop(nds2, srf, p.groups, resps, <<>>) IN
            [nodes |-> l.nodes, surface |-> l.surface, raised |-> l.raised,
             results |-> l.results, groups |-> p.groups,
             searched |-> p.searched, error |-> IF l.raised THEN "ApiError" ELSE "",
             calls |-> l.calls]

\* What a search of this study comes back with: nothing found, or an
\* exception.
TokenSearchResponses == {[ok |-> TRUE, groups |-> <<>>], SearchFailure}

\* The header and payload of a search request that went out for node with
\* the direction id taken from the directions call dcall.
Request(node, id, dcall) ==
    [sent |-> TRUE, token |-> node.count_id, id |-> id, dcall |-> dcall,
     items |-> node.items]

InitToken ==
    /\ InitGraph
    /\ call = CallNone
    /\ stream = StreamNone
    /\ main = MainNone
    /\ expand = ExpandNone
    /\ query = QueryNone

\* surface.append(Node(...)) on the empty graph.
TokenSeed ==
    /\ nodes = <<>>
    /\ \E type \in NodeTypes, items \in SUBSET Items \ {{}} :
       \E resp \in TokenResponses(0) :
        LET nds0 == <<Node_init(type, items)>>
            r == list_append(nds0, surface, 1, resp)
        IN /\ ~r.raised
           /\ nodes' = r.nodes
           /\ surface' = r.surface
           /\ expand' = [expand EXCEPT
                          !.calls = Logged(expand.calls, nds0[1], r.nodes[1])]
    /\ UNCHANGED <<reviewQueue, last, ops, call, stream, main, query>>

\* The caller keeps a SearchDirection read from node.searchDirections.
TakeDirection ==
    /\ nodes # <<>>
    /\ Len(expand.calls) < MaxCalls
    /\ \E resp \in TokenAnswers(nodes[1], Len(expand.calls)) :
        LET r == refresh_if_stale(nodes[1], resp) IN
        /\ nodes' = [nodes EXCEPT ![1] = r.node]
        /\ expand' = [expand EXCEPT
                       !.calls = Logged(expand.calls, nodes[1], r.node),
                       !.request = ExpandNone.request,
                       !.held = IF r.raised \/ r.node.search_directions = <<>>
                                THEN @
                                ELSE [id |-> r.node.search_directions[1],
                                      call |-> CallOf(r.node.count_id)]]
    /\ UNCHANGED <<surface, reviewQueue, last, ops, call, stream, main, query>>

\* The membership of the Node changes (set.add, intersection_update, ...).
ChangeMembership ==
    /\ nodes # <<>>
    /\ \E items \in SUBSET Items \ {{}, nodes[1].items} :
        nodes' = [nodes EXCEPT ![1].items = items]
    /\ expand' = [expand EXCEPT !.request = ExpandNone.request]
    /\ UNCHANGED <<surface, reviewQueue, last, ops, call, stream, main, query>>

\* surface.search(direction, node) with an integer direction.
ExpandInteger ==
    /\ nodes # <<>>
    /\ Len(expand.calls) < MaxCalls
    /\ \E direction \in DirIds :
       \E readResp \in TokenAnswers(nodes[1], Len(expand.calls)) :
        LET r == search_resolve(nodes[1], direction, readResp)
            log1 == Logged(expand.calls, nodes[1], r.node)
        IN
        \E tokResp \in (IF r.raised \/ Len(log1) >= MaxCalls THEN {DirFailure}
                        ELSE TokenAnswers(r.node, Len(log1))) :
        \E sresp \in (IF r.raised THEN {SearchFailure} ELSE TokenSearchResponses) :
            \E s \in {AttackSurface_search(nodes, surface, direction, 1,
                        readResp, tokResp, sresp, <<>>)} :
               /\ nodes' = s.nodes
               /\ surface' = s.surface
               /\ expand' = [expand EXCEPT
                              !.calls = Logged(log1, r.node, s.nodes[1]),
                              !.request =
                                IF s.searched
                                THEN Request(s.nodes[1], direction,
                                             CallOf(r.node.count_id))
                                ELSE ExpandNone.request]
    /\ UNCHANGED <<reviewQueue, last, ops, call, stream, main, query>>

\* surface.search(direction, node) with the SearchDirection the caller
\* holds.
ExpandObject ==
    /\ nodes # <<>>
    /\ expand.held.id # 0
    /\ Len(expand.calls) < MaxCalls
    /\ \E tokResp \in TokenAnswers(nodes[1], Len(expand.calls)) :
       \E sresp \in TokenSearchResponses :
        \E s \in {AttackSurface_search_object(nodes, surface, 1, tokResp, sresp, <<>>)} :
           /\ nodes' = s.nodes
           /\ surface' = s.surface
           /\ expand' = [expand EXCEPT
                          !.calls = Logged(expand.calls, nodes[1], s.nodes[1]),
                          !.request =
                            IF s.searched
                            THEN Request(s.nodes[1], expand.held.id, expand.held.call)
                            ELSE ExpandNone.request]
    /\ UNCHANGED <<reviewQueue, last, ops, call, stream, main, query>>

NextToken ==
    \/ TokenSeed
    \/ TakeDirection
    \/ ChangeMembership
    \/ ExpandInteger
    \/ ExpandObject

SpecToken == InitToken /\ [][NextToken]_vars

\* ------------------------------------------- DiscoveryAIClient.__query__

\* Largest value of the parameter retries of a query.
MaxRetries == 3

\* max_partly_count as main passes it to DiscoveryAiValidator.
MaxPartlyCount == 20

\* sleep(10) after a RateLimitError.
OracleRateLimitWait == 10

\* Direction identifiers the model may name, and the counts of directions.
AnswerIds == {1, 2, 3}
Counts == {5, 25}

\* The lists of directions (as SearchDirection.to_dict gives them) a
\* DiscoveryAiValidator is built with.
ValidatorDirections ==
    {<<>>}
    \cup {<<[id |-> 1, count |-> c]>> : c \in Counts}
    \cup {<<[id |-> 1, count |-> c], [id |-> 2, count |-> d]>> : c, d \in Counts}

\* The validators of the two call sites of main: DiscoveryAiValidator for
\* searchDirectionsQuery, DiscoveryAiValidatorPartly for partlyAddQuery.
Validators ==
    [kind : {"directions"}, directions : ValidatorDirections, nodes : {{}}]
    \cup [kind : {"partly"}, directions : {<<>>}, nodes : SUBSET Items \ {{}}]

\* What the model may answer: an AISearchDirectionsResponse (add, partly,
\* skip) or an AIPartlyAddAnswer (nodes).
NoResponse == [add |-> <<>>, partly |-> <<>>, skip |-> <<>>, nodes |-> {}]
Responses(kind) ==
    IF kind = "directions"
    THEN [add : SeqsUpTo(AnswerIds, MaxAnswer),
          partly : SeqsUpTo(AnswerIds, MaxAnswer),
          skip : SeqsUpTo(AnswerIds, MaxAnswer),
          nodes : {{}}]
    ELSE [add : {<<>>}, partly : {<<>>}, skip : {<<>>}, nodes : SUBSET Items]

\* DiscoveryAiValidator.validate: every identifier of add, skip and partly
\* is an id of the directions, and every direction of partly has a count of
\* at most max_partly_count.
validate_directions(directions, answer) ==
    LET received == answer.add \o answer.skip \o answer.partly
        direction_ids == {directions[i].id : i \in DOMAIN directions}
    IN /\ \A i \in DOMAIN received : received[i] \in direction_ids
       /\ \A i \in DOMAIN answer.partly :
            LET first == CHOOSE k \in DOMAIN directions :
                            /\ directions[k].id = answer.partly[i]
                            /\ \A j \in DOMAIN directions :
                                directions[j].id = answer.partly[i] => k <= j
            IN directions[first].count <= MaxPartlyCount

\* DiscoveryAiValidatorPartly.validate: every node of the answer is an item
\* of the new Node.
validate_partly(node_items, answer) == answer.nodes \subseteq node_items

\* validator(responseParsed)
validate(validator, answer) ==
    IF validator.kind = "directions"
    THEN validate_directions(validator.directions, answer)
    ELSE validate_partly(validator.nodes, answer)

\* What one pass of the loop may meet: a parsed response, output_parsed
\* None, a response of another model, or an exception of the client.
QueryOutcomes(kind) ==
    [kind : {"parsed"}, response : Responses(kind)]
    \cup [kind : {"none", "wrong_model", "APIResponseValidationError",
                  "RateLimitError", "APITimeoutError", "APIConnectionError"},
          response : {NoResponse}]

on_outcome_unvalidated(outcome, validator) ==
    IF outcome.kind = "wrong_model" THEN "RuntimeError"
    ELSE IF outcome.kind = "APIConnectionError" THEN "APIConnectionError"
    ELSE IF outcome.kind = "parsed" THEN "return"
    ELSE IF outcome.kind = "RateLimitError" THEN "sleep"
    ELSE "repeat"

\* The body of the loop for one outcome: "return" the response, go on to the
\* next pass ("repeat", or "sleep" first), or the exception that leaves
\* __query__.
on_outcome(outcome, validator) ==
    IF outcome.kind = "wrong_model" THEN "RuntimeError"
    ELSE IF outcome.kind = "APIConnectionError" THEN "APIConnectionError"
    ELSE IF outcome.kind = "parsed"
    THEN IF validate(validator, outcome.response) THEN "return" ELSE "repeat"
    ELSE IF outcome.kind = "RateLimitError" THEN "sleep"
    ELSE "repeat"

\* A query starts with a validator and a number of retries.
InitQuery ==
    /\ InitGraph
    /\ call = CallNone
    /\ stream = StreamNone
    /\ main = MainNone
    /\ expand = ExpandNone
    /\ query \in {[QueryNone EXCEPT !.pc = "loop", !.retries = r, !.validator = v] :
                    r \in 0..MaxRetries, v \in Validators}

\* A pass of the loop whose response the validator accepts: it is returned.
QueryReturn ==
    /\ query.pc = "loop"
    /\ query.attempt < query.retries
    /\ \E outcome \in QueryOutcomes(query.validator.kind) :
        /\ on_outcome(outcome, query.validator) = "return"
        /\ query' = [query EXCEPT
                      !.pc = "returned", !.attempt = @ + 1, !.requests = @ + 1,
                      !.parsed = TRUE, !.response = outcome.response,
                      !.returned = outcome.response]
    /\ UNCHANGED <<nodes, surface, reviewQueue, last, ops, call, stream, main, expand>>

\* A pass of the loop that ends with continue: a rejected response, no
\* parsed output, a response that does not fit the type, a timeout.
QueryRepeat ==
    /\ query.pc = "loop"
    /\ query.attempt < query.retries
    /\ \E outcome \in QueryOutcomes(query.validator.kind) :
        /\ on_outcome(outcome, query.validator) = "repeat"
        /\ query' = [query EXCEPT
                      !.attempt = @ + 1, !.requests = @ + 1,
                      !.parsed = outcome.kind = "parsed",
                      !.response = outcome.response]
    /\ UNCHANGED <<nodes, surface, reviewQueue, last, ops, call, stream, main, expand>>

\* A pass of the loop that meets RateLimitError: sleep, then continue.
QuerySleep ==
    /\ query.pc = "loop"
    /\ query.attempt < query.retries
    /\ \E outcome \in QueryOutcomes(query.validator.kind) :
        /\ on_outcome(outcome, query.validator) = "sleep"
        /\ query' = [query EXCEPT
                      !.attempt = @ + 1, !.requests = @ + 1,
                      !.parsed = FALSE, !.response = outcome.response,
                      !.slept = @ + OracleRateLimitWait]
    /\ UNCHANGED <<nodes, surface, reviewQueue, last, ops, call, stream, main, expand>>

\* A pass of the loop that raises an exception no except clause catches.
QueryRaise ==
    /\ query.pc = "loop"
    /\ query.attempt < query.retries
    /\ \E outcome \in QueryOutcomes(query.validator.kind) :
        LET o == on_outcome(outcome, query.validator) IN
        /\ o \notin {"return", "repeat", "sleep"}
        /\ query' = [query EXCEPT
                      !.pc = "raised", !.attempt = @ + 1, !.requests = @ + 1,
                      !.parsed = FALSE, !.response = outcome.response,
                      !.error = o]
    /\ UNCHANGED <<nodes, surface, reviewQueue, last, ops, call, stream, main, expand>>

\* The loop is over: raise Exception("Failed to get a valid response ...").
QueryExhausted ==
    /\ query.pc = "loop"
    /\ query.attempt >= query.retries
    /\ query' = [query EXCEPT !.pc = "raised", !.error = "Exception"]
    /\ UNCHANGED <<nodes, surface, reviewQueue, last, ops, call, stream, main, expand>>

NextQuery ==
    \/ QueryReturn
    \/ QueryRepeat
    \/ QuerySleep
    \/ QueryRaise
    \/ QueryExhausted

SpecQuery == InitQuery /\ [][NextQuery]_vars

TypeOK ==
    /\ \A i \in DOMAIN surface : surface[i] \in DOMAIN nodes
    /\ Len(nodes) <= MaxNodes

\* ---------------------------------------------------------------- claims

Range(q) == {q[i] : i \in DOMAIN q}

\* The items of the Nodes of type t on the list srf.
ItemsOfType(nds, srf, t) ==
    UNION {nds[srf[i]].items : i \in {j \in DOMAIN srf : nds[srf[j]].type = t}}

NodesOfType(nds, srf, t) == {n \in Range(srf) : nds[n].type = t}

\* C1 (Uniqueness): in every state reached by seed/merge and expand
\* operations, two different Nodes of the graph that have the same type
\* have no item in common.
C1_Uniqueness ==
    \A i, j \in DOMAIN surface :
        (surface[i] # surface[j] /\ nodes[surface[i]].type = nodes[surface[j]].type)
            => nodes[surface[i]].items \cap nodes[surface[j]].items = {}

\* A Node was merged next to Nodes of its type and lost items to them.
C1_Witness ==
    /\ last.op \in {"append", "search"}
    /\ ~last.raised
    /\ \E k \in DOMAIN last.result :
        LET n == last.result[k] IN
        /\ \E g \in Range(last.produced) :
              g.type = nodes[n].type /\ nodes[n].items # g.items
        /\ \E m \in Range(surface) : m # n /\ nodes[m].type = nodes[n].type

\* C2 (No-empty-node): after every completed merge, expand and partial
\* accept (intersection followed by the removal check) no Node of the graph
\* has zero items.
C2_NoEmptyNode ==
    \A i \in DOMAIN surface : nodes[surface[i]].items # {}

\* C3 (Cache coherence): a read of searchDirections or count_id that
\* returns hands out a cache computed for the present membership, after at
\* most one call of the updater, and after exactly one when the cache was
\* filled for another membership.
C3_CacheCoherence ==
    (last.op = "read" /\ ~last.raised) =>
        /\ nodes[last.node].has_search_directions
        /\ nodes[last.node].computed_for = nodes[last.node].items
        /\ last.refreshes \in {0, 1}
        /\ last.stale => last.refreshes = 1

\* A read that found the cache of a non-empty Node filled for another
\* membership, and returned.
C3_Witness ==
    /\ last.op = "read" /\ ~last.raised /\ last.stale
    /\ last.refreshes = 1
    /\ nodes[last.node].items # {}
    /\ nodes[last.node].search_directions # <<>>

\* C4: a read on a Node whose membership is the one its cache was filled
\* for returns without a call of the updater, whatever the cached list is.
C4_NoRefreshWhenUnchanged ==
    (last.op = "read" /\ ~last.stale) => (last.refreshes = 0 /\ ~last.raised)

\* C5 (Idempotent re-merge): an append of a Node all of whose items are in
\* Nodes of its type in the graph leaves the list and the membership of
\* every Node on it as they were, and stores nothing.
C5_IdempotentRemerge ==
    [][(/\ last'.op = "append"
        /\ last'.produced[1].items
              \subseteq ItemsOfType(nodes, surface, last'.produced[1].type))
       => (/\ surface' = surface
           /\ last'.result = <<>>
           /\ \A i \in DOMAIN surface :
                 nodes'[surface[i]].items = nodes[surface[i]].items)]_vars

\* C6 (Monotonic processing): no step takes the processed flag of a Node
\* from true to false, and a Node that enters the pool is unprocessed.
C6_MonotonicProcessing ==
    [][/\ \A n \in DOMAIN nodes :
            nodes[n].isAiProcessed =>
                (n \in DOMAIN nodes' /\ nodes'[n].isAiProcessed)
       /\ \A n \in DOMAIN nodes' \ DOMAIN nodes : ~nodes'[n].isAiProcessed]_vars

\* A search from a processed Node has stored new Nodes.
C6_Witness ==
    /\ last.op = "search" /\ ~last.raised /\ last.result # <<>>
    /\ nodes[last.node].isAiProcessed
    /\ \A k \in DOMAIN last.result : ~nodes[last.result[k]].isAiProcessed

\* The case of Scenario A: one Node of the type is in the graph, and a
\* constructed Node of that type with two items, one of them in that Node
\* and one in no Node of the type, has just been appended without error.
ScenarioA ==
    /\ last'.op = "append" /\ last'.new /\ ~last'.raised
    /\ LET g == last'.produced[1] IN
       /\ Cardinality(NodesOfType(nodes, surface, g.type)) = 1
       /\ Cardinality(g.items) = 2
       /\ Cardinality(g.items \cap ItemsOfType(nodes, surface, g.type)) = 1

\* C7 as claimed: after Scenario A the graph has a single Node of the type,
\* and that Node holds both items.
C7_ScenarioA_Original ==
    [][ScenarioA =>
        LET g == last'.produced[1] IN
        /\ Cardinality(NodesOfType(nodes', surface', g.type)) = 1
        /\ \A n \in NodesOfType(nodes', surface', g.type) :
              g.items \subseteq nodes'[n].items]_vars

\* C7 as amended: after Scenario A the graph has two Nodes of the type: the
\* one it had, with the membership it had, and after it the merged Node,
\* holding only the new item.
C7_ScenarioA_Amended ==
    [][ScenarioA =>
        LET g == last'.produced[1]
            old == ItemsOfType(nodes, surface, g.type)
        IN
        /\ Len(last'.result) = 1
        /\ surface' = Append(surface, last'.result[1])
        /\ nodes'[last'.result[1]].type = g.type
        /\ nodes'[last'.result[1]].items = g.items \ old
        /\ \A n \in NodesOfType(nodes, surface, g.type) :
              nodes'[n].items = nodes[n].items]_vars

\* Scenario A has happened.
C7_Witness ==
    /\ last.op = "append" /\ last.new /\ ~last.raised
    /\ Cardinality(last.produced[1].items) = 2
    /\ Len(last.result) = 1
    /\ Cardinality(nodes[last.result[1]].items) = 1
    /\ Cardinality(NodesOfType(nodes, surface, last.produced[1].type)) = 2

\* C8: when an append or a search completes, each incoming Node of type T
\* is stored with its incoming items minus the items of the Nodes of type T
\* that were in the graph, and is stored exactly when that difference is not
\* empty; items found only in Nodes of other types stay.
C8_MergeStripsExactly ==
    [][(last'.op \in {"append", "search"} /\ ~last'.raised) =>
        \A g \in Range(last'.produced) :
            LET expected == g.items \ ItemsOfType(nodes, surface, g.type)
                stored == {n \in Range(last'.result) : nodes'[n].type = g.type}
            IN IF expected = {}
               THEN stored = {}
               ELSE /\ Cardinality(stored) = 1
                    /\ \A n \in stored : nodes'[n].items = expected]_vars

\* A Node was stored after losing an item to a Node of its type while
\* keeping an item that a Node of another type holds.
C8_Witness ==
    /\ last.op \in {"append", "search"} /\ ~last.raised
    /\ \E k \in DOMAIN last.result :
        LET n == last.result[k] IN
        /\ \E g \in Range(last.produced) :
              g.type = nodes[n].type /\ nodes[n].items # g.items
        /\ \E m \in Range(surface) :
              /\ nodes[m].type # nodes[n].type
              /\ nodes[m].items \cap nodes[n].items # {}

\* The types of the response groups that keep an item after deduplication
\* against the list srf, in response order.
RECURSIVE SurvivorTypes(_, _, _)
SurvivorTypes(nds, srf, groups) ==
    IF groups = <<>> THEN <<>>
    ELSE (IF Head(groups).items \ ItemsOfType(nds, srf, Head(groups).type) # {}
          THEN <<Head(groups).type>> ELSE <<>>)
         \o SurvivorTypes(nds, srf, Tail(groups))

C10_EveryNodeHasUpdater ==
    \A i \in DOMAIN surface : nodes[surface[i]].is_search_directions_updater_set

\* ------------------------------------------------ claims on the retry loop

\* An attempt failed in one of the ways the spec calls transient.
Transient(o) ==
    \/ o.kind = "HTTPError" /\ o.status = 429 /\ o.has_retry_after
    \/ o.kind = "HTTPError" /\ o.status = 504
    \/ o.kind \in {"Timeout", "ConnectionError", "ChunkedEncodingError"}

AllTransient(h) == \A i \in DOMAIN h : Transient(h[i])

\* C11 (transient failures are retried): a 429 with Retry-After, a 504, a
\* timeout, a connection error or a partial-read error never fails the call
\* by itself; each is followed by the default sleep and, while the budget
\* lasts, by the next attempt; a call that returns after k transient
\* failures returns the payload of attempt k+1.
C11_TransientRetried ==
    [][/\ (call.pc = "handle" /\ Transient(call.outcome)) => call'.pc = "sleep"
       /\ call.pc = "sleep" =>
            /\ call'.pc = "loop"
            /\ call'.sleeps = Append(call.sleeps, DEFAULT_RETRY_WAIT_TIME)
            /\ call'.attempt = call.attempt
       /\ (call.pc = "loop" /\ call.attempt > 0 /\ call.attempt < MAX_RETIRES) =>
            /\ call'.pc = "handle"
            /\ call'.attempt = call.attempt + 1
       /\ call'.pc = "returned" =>
            /\ call'.history[Len(call'.history)].kind = "response"
            /\ AllTransient(SubSeq(call'.history, 1, Len(call'.history) - 1))
            /\ call'.attempt = Len(call'.history)
            /\ call'.payload = call'.attempt
      ]_vars

\* The call returned at its last attempt, after a rate-limited attempt and a
\* timed-out one.
C11_Witness ==
    /\ call.pc = "returned"
    /\ call.attempt = MAX_RETIRES
    /\ call.history[1].status = 429
    /\ call.history[2].kind = "Timeout"

\* C12 (rate-limit sleep): for a 429 with Retry-After R the sleep made
\* before the default sleep is max(R - baseline, 0).
C12_RateLimitSleep ==
    (call.pc = "sleep" /\ call.outcome.status = 429 /\ call.outcome.has_retry_after)
        => call.sleeps =
            <<IF call.outcome.retry_after - DEFAULT_RETRY_WAIT_TIME > 0
              THEN call.outcome.retry_after - DEFAULT_RETRY_WAIT_TIME ELSE 0>>

\* An HTTP error status that is neither 504 nor 429 with Retry-After.
OtherStatus(o) ==
    /\ o.kind = "HTTPError"
    /\ o.status # 504
    /\ ~(o.status = 429 /\ o.has_retry_after)

\* C13 (other HTTP errors fail at once): the first response with any other
\* error status ends the call with an error carrying the status code; no
\* sleep and no further attempt follow it.
C13_OtherStatusFails ==
    [][/\ (call.pc = "handle" /\ OtherStatus(call.outcome)) =>
            /\ call'.pc = "raised"
            /\ call'.error.kind = "http"
            /\ call'.error.status = call.outcome.status
            /\ call'.attempt = call.attempt
            /\ call'.sleeps = <<>>
       /\ call.pc # "raised"
      ]_vars

\* A 429 without Retry-After ended the call at the second attempt.
C13_Witness ==
    /\ call.pc = "raised"
    /\ call.error.kind = "http"
    /\ call.error.status = 429
    /\ ~call.outcome.has_retry_after
    /\ call.attempt = 2

\* C14 (bounded retries): the call ends; it never makes more than
\* MAX_RETIRES attempts; when every attempt failed transiently it ends after
\* exactly MAX_RETIRES attempts with the exhausted-retries error, which
\* names that count.
C14_BoundedRetries ==
    /\ <>(call.pc \in {"returned", "raised"})
    /\ [](call.attempt <= MAX_RETIRES /\ Len(call.history) = call.attempt)
    /\ []((call.pc \in {"returned", "raised"} /\ AllTransient(call.history)) =>
            /\ call.pc = "raised"
            /\ call.error.kind = "exhausted"
            /\ call.error.attempts = call.attempt
            /\ call.attempt = MAX_RETIRES)
    /\ [](call.error.kind = "exhausted" => AllTransient(call.history))

\* Every attempt of the budget failed transiently and the call gave up.
C14_Witness ==
    /\ call.pc = "raised"
    /\ call.error.kind = "exhausted"
    /\ Len(call.history) = MAX_RETIRES
    /\ call.history[1].status = 504

\* -------------------------------------------- claims on response parsing

IsRecord(line) == line.kind = "record"

\* C15 (malformed and empty lines are skipped): parsing never fails, and
\* gives what the well-formed records of the body alone would give.
C15_MalformedSkipped ==
    stream.parsed =>
        /\ stream.result.ok
        /\ stream.shape = "directions" =>
            stream.result = parse_directions(SelectSeq(stream.lines, IsRecord), <<>>)
        /\ stream.shape = "search" =>
            stream.result = parse_search(SelectSeq(stream.lines, IsRecord),
                                         stream.search_field)

HasCount(line) == line.kind = "record" /\ line.count > 0

\* C16 (zero-count directions are dropped): the direction list of a
\* directions call holds exactly the records with count > 0, in the order of
\* the response.
C16_OnlyPositiveCounts ==
    (stream.parsed /\ stream.shape = "directions" /\ stream.result.ok) =>
        LET kept == SelectSeq(stream.lines, HasCount) IN
        stream.result.directions =
            [i \in DOMAIN kept |-> [id |-> kept[i].id, count |-> kept[i].count]]

\* Two directions were kept, in response order, and a zero-count record
\* between them was dropped.
C16_Witness ==
    /\ stream.parsed
    /\ stream.shape = "directions"
    /\ stream.result.ok
    /\ Len(stream.lines) = 3
    /\ stream.lines[2].kind = "record" /\ stream.lines[2].count = 0
    /\ Len(stream.result.directions) = 2
    /\ stream.result.directions[1].id = 2
    /\ stream.result.directions[2].id = 1

\* The records of a search response that count: validity flag true and a
\* non-empty value list.
Counted(lines) ==
    {i \in DOMAIN lines :
        lines[i].kind = "record" /\ lines[i].is_valid = "true"
        /\ lines[i].node_value # {}}

\* C17 (grouping of search results): one new Node per NodeType among the
\* counted records, its membership the union of their values, its label the
\* search field of the direction; other records contribute nothing.
C17_OneNodePerType ==
    (stream.parsed /\ stream.shape = "search" /\ stream.result.ok) =>
        LET ns == stream.result.nodes
            q == Counted(stream.lines)
        IN /\ {ns[k].type : k \in DOMAIN ns} = {stream.lines[i].node_type : i \in q}
           /\ \A k, l \in DOMAIN ns : ns[k].type = ns[l].type => k = l
           /\ \A k \in DOMAIN ns :
                /\ ns[k].label = stream.search_field
                /\ ns[k].items =
                     UNION {stream.lines[i].node_value :
                              i \in {j \in q : stream.lines[j].node_type = ns[k].type}}

\* Two counted records of one type were merged into one Node and a record
\* flagged invalid was left out.
C17_Witness ==
    /\ stream.parsed
    /\ stream.shape = "search"
    /\ stream.result.ok
    /\ Len(stream.result.nodes) = 1
    /\ stream.result.nodes[1].items = {"a", "b"}
    /\ \E i \in DOMAIN stream.lines :
        /\ stream.lines[i].is_valid = "false"
        /\ stream.lines[i].node_value # {}

\* ----------------------------------------------- claims on error handling

\* C18 (stale read without a refresh path): a read of searchDirections or
\* count_id on a Node without an updater whose cache was never set or was
\* set for another membership raises the stale-state error (the ValueError
\* of the property) and returns nothing.
C18_StaleReadFails ==
    (/\ last.op = "read"
     /\ ~nodes[last.node].is_search_directions_updater_set
     /\ \/ ~nodes[last.node].has_search_directions
        \/ nodes[last.node].items_hash # hash(nodes[last.node].items))
        => (last.raised /\ last.error = "ValueError")

\* C19 (unknown direction): a search with an integer identifier that is not
\* among the node's current directions (the read of the directions having
\* succeeded) fails with the no-match error; no search request is sent and
\* the node sequence of the graph is unchanged.
C19_UnknownDirection ==
    [][(/\ last'.op = "search"
        /\ last'.error # "ApiError"
        /\ ~\E i \in DOMAIN nodes'[last'.node].search_directions :
              nodes'[last'.node].search_directions[i] = last'.direction)
        => /\ last'.raised
           /\ last'.error = "StopIteration"
           /\ ~last'.searched
           /\ surface' = surface
           /\ Len(nodes') = Len(nodes)
      ]_vars

\* A node with directions was searched by an identifier it does not have.
C19_Witness ==
    /\ last.op = "search"
    /\ last.raised
    /\ last.error = "StopIteration"
    /\ nodes[last.node].search_directions # <<>>
    /\ ~\E i \in DOMAIN nodes[last.node].search_directions :
          nodes[last.node].search_directions[i] = last.direction

\* C20 (remove detaches exactly the Node passed): after remove(node) that
\* Node is off the graph and every other Node is still there, in the same
\* relative order and with the same membership.
C20_RemoveExactlyThat ==
    [][(last'.op = "remove" /\ ~last'.raised)
        => /\ \E k \in DOMAIN surface :
                /\ surface[k] = last'.node
                /\ surface' = SubSeq(surface, 1, k - 1)
                                \o SubSeq(surface, k + 1, Len(surface))
           /\ \A i \in DOMAIN surface' :
                /\ surface'[i] # last'.node
                /\ nodes'[surface'[i]].items = nodes[surface'[i]].items
      ]_vars

\* ------------------------------------------ claims on the insertion paths

\* A directions answer of the backend.
SomeDirections == [ok |-> TRUE, directions |-> <<1>>, count_id |-> "t1"]

\* What is left of a Node of type t with the items I when it is merged into
\* the present graph.
MergedItems(t, I) ==
    LET nds0 == Append(nodes, Node_init(t, I)) IN
    filter_and_register_node(nds0, surface, Len(nds0), SomeDirections)
        .nodes[Len(nds0)].items

\* C25 (the dedup filter follows the graph): in every state, also after a
\* removal or a partial accept, a merged Node loses exactly the items that
\* some Node of its type in the graph holds now.
C25_FilterFollowsGraph ==
    \A t \in NodeTypes, I \in SUBSET Items :
        MergedItems(t, I) = I \ ItemsOfType(nodes, surface, t)

\* A partial accept dropped an item from a Node and kept another: the
\* dropped item would now be accepted, the kept one filtered.
C25_Witness ==
    /\ last.op = "partly"
    /\ OnSurface(surface, last.node)
    /\ \E x \in last.produced[1].items, y \in nodes[last.node].items :
        /\ x \notin ItemsOfType(nodes, surface, last.produced[1].type)
        /\ MergedItems(last.produced[1].type, {x, y}) = {x}

\* C26 (all insertion paths filter alike): after append, insert, index
\* assignment or search has stored a newly constructed Node, that Node is
\* non-empty, shares no item with another Node of its type, has its search
\* directions computed and its updater registered.
C26_AllPathsFilter ==
    (/\ last.op \in {"append", "insert", "setitem", "search"}
     /\ ~last.raised
     /\ last.op = "search" \/ last.new)
        => \A k \in Range(last.result) :
            /\ nodes[k].items # {}
            /\ nodes[k].has_search_directions
            /\ nodes[k].is_search_directions_updater_set
            /\ \A j \in Range(surface) :
                (j # k /\ nodes[j].type = nodes[k].type)
                    => nodes[j].items \cap nodes[k].items = {}

\* C28 (merge wiring): an accepted Node gets exactly one directions call and
\* is stored after it; a Node emptied by dedup gets no call and is not in
\* the graph afterwards; a failed directions call leaves the Node out and
\* the node sequence as it was.
C28_MergeWiring ==
    [][/\ last'.op = "append" =>
            LET g == last'.produced[1]
                left == IF last'.new
                        THEN g.items \ ItemsOfType(nodes, surface, g.type)
                        ELSE {}
            IN /\ last'.result # <<>> =>
                    /\ last'.calls = 1
                    /\ ~last'.raised
                    /\ surface' = Append(surface, last'.node)
                    /\ nodes'[last'.node].has_search_directions
                    /\ nodes'[last'.node].is_search_directions_updater_set
               /\ left = {} =>
                    /\ last'.calls = 0
                    /\ surface' = surface
                    /\ last'.node # 0 => ~OnSurface(surface', last'.node)
               /\ last'.raised => (last'.calls = 1 /\ surface' = surface)
       /\ (last'.op = "search" /\ last'.produced # <<>>) =>
            /\ surface' = surface \o last'.result
            /\ last'.calls = Len(last'.result) + (IF last'.raised THEN 1 ELSE 0)
            /\ \A k \in Range(last'.result) :
                /\ nodes'[k].has_search_directions
                /\ nodes'[k].is_search_directions_updater_set
      ]_vars

\* C30 (merge and expand leave the other Nodes alone): append and search
\* change neither the membership nor the type nor the processed flag of a
\* Node that was in the graph before the call, whatever Node object comes
\* in.
C30_OnlyIncomingMutated ==
    [][last'.op \in {"append", "search"} =>
        \A i \in DOMAIN surface :
            /\ nodes'[surface[i]].items = nodes[surface[i]].items
            /\ nodes'[surface[i]].type = nodes[surface[i]].type
            /\ nodes'[surface[i]].isAiProcessed = nodes[surface[i]].isAiProcessed
      ]_vars

\* C21 (partial accept): when the review of a Node found by a "partly"
\* direction ends, the Node's membership is the intersection of its former
\* membership with the approved items; when that is empty the Node is gone
\* from the graph and the others keep their order, otherwise the graph has
\* the same Nodes at the same positions; no other Node changes.
C21_PartialAccept ==
    [][(main.pc = "review" /\ main'.pc \in {"add", "review"}) =>
        LET n == Head(reviewQueue)
            inter == nodes[n].items \cap main'.answer
        IN /\ main'.answer \subseteq nodes[n].items
           /\ nodes'[n].items = inter
           /\ IF inter = {}
              THEN /\ ~OnSurface(surface', n)
                   /\ surface' = SelectSeq(surface, LAMBDA k : k # n)
              ELSE /\ surface' = surface
                   /\ nodes'[n].type = nodes[n].type
           /\ \A k \in Range(surface) \ {n} : nodes'[k] = nodes[k]
      ]_vars

\* A review kept one of the two items of a new Node, which is still in the
\* graph, behind another Node.
C21_Witness ==
    /\ main.reviewed # 0
    /\ Cardinality(main.before) = 2
    /\ Cardinality(main.answer) = 1
    /\ OnSurface(surface, main.reviewed)
    /\ nodes[main.reviewed].items = main.answer
    /\ Len(surface) >= 2

\* C22 (listUnprocessed): the list taken at the head of the loop holds the
\* Nodes of the graph whose processed flag is false and no other, each
\* once, in the order of the graph, and taking it changes neither the
\* graph nor a Node.
C22_ListUnprocessed ==
    [][main.pc = "loop" =>
        LET q == main'.queue IN
        /\ Range(q) = {n \in Range(surface) : ~nodes[n].isAiProcessed}
        /\ \A i, j \in DOMAIN q : i < j =>
            /\ q[i] # q[j]
            /\ \E a, b \in DOMAIN surface :
                a < b /\ surface[a] = q[i] /\ surface[b] = q[j]
        /\ nodes' = nodes
        /\ surface' = surface
      ]_vars

\* The list was taken from a graph with a processed Node and two
\* unprocessed ones.
C22_Witness ==
    /\ main.pc = "selected"
    /\ Len(main.queue) = 2
    /\ \E n \in Range(surface) : nodes[n].isAiProcessed
    /\ Range(main.queue) = {n \in Range(surface) : ~nodes[n].isAiProcessed}

\* C23 as stated (snapshot): the mapping returned by the snapshot has the
\* types of the graph as keys and, for each, the sorted duplicate-free list
\* of the items of that type; the graph is not modified.
C23_SnapshotSorted ==
    [][(main.pc = "output" /\ ~main.no_results) =>
        LET d == main'.snapshot IN
        /\ DOMAIN d = TypesOn(nodes, surface)
        /\ \A t \in DOMAIN d :
            /\ Range(d[t]) = ItemsOfType(nodes, surface, t)
            /\ \A i, j \in DOMAIN d[t] : i < j => ItemRank(d[t][i]) < ItemRank(d[t][j])
        /\ nodes' = nodes
        /\ surface' = surface
      ]_vars

\* C23 amended: the mapping returned by the snapshot has the types of the
\* graph as keys and, for each, a duplicate-free list in no particular
\* order of the items of that type; the graph is not modified; the output
\* step of the run sorts each list before it prints the mapping.
C23_SnapshotThenSort ==
    [][(main.pc = "output" /\ ~main.no_results) =>
        LET d == main'.snapshot
            o == main'.output
        IN
        /\ DOMAIN d = TypesOn(nodes, surface)
        /\ \A t \in DOMAIN d :
            /\ Range(d[t]) = ItemsOfType(nodes, surface, t)
            /\ \A i, j \in DOMAIN d[t] : i < j => d[t][i] # d[t][j]
        /\ DOMAIN o = DOMAIN d
        /\ \A t \in DOMAIN o :
            /\ Range(o[t]) = Range(d[t])
            /\ \A i, j \in DOMAIN o[t] : i < j => ItemRank(o[t][i]) < ItemRank(o[t][j])
        /\ nodes' = nodes
        /\ surface' = surface
      ]_vars

\* A snapshot was taken of a graph with two Nodes of one type, and its list
\* for that type was not in ascending order.
C23_Witness ==
    /\ main.pc = "done"
    /\ main.emitted
    /\ \E t \in DOMAIN main.snapshot :
        /\ Cardinality(NodesOfType(nodes, surface, t)) = 2
        /\ Len(main.snapshot[t]) = 2
        /\ ItemRank(main.snapshot[t][1]) > ItemRank(main.snapshot[t][2])
        /\ main.output[t] # main.snapshot[t]

\* An exception was raised inside the loop of main.
LoopError == main.error # "" /\ main.node # 0

\* C24 (an error does not prevent the output): once an exception is raised
\* inside the discovery loop, the run reports it and comes to its end, and
\* unless the output was disabled it has then emitted, type by type, the
\* items of the graph as the error left it.
C24_ErrorStillEmits ==
    LoopError ~>
        (/\ main.pc = "done"
         /\ main.reported
         /\ main.no_results
            \/ /\ main.emitted
               /\ DOMAIN main.output = TypesOn(nodes, surface)
               /\ \A t \in DOMAIN main.output :
                    Range(main.output[t]) = ItemsOfType(nodes, surface, t))

\* A remote call failed after the loop had added Nodes to the graph, and
\* the run ended with the error reported and the graph emitted.
C24_Witness ==
    /\ main.pc = "done"
    /\ main.error = "ApiError"
    /\ main.node # 0
    /\ main.reported
    /\ main.emitted
    /\ Len(surface) >= 2
    /\ \A t \in DOMAIN main.output :
        Range(main.output[t]) = ItemsOfType(nodes, surface, t)

\* C27 (the loop terminates): the run comes to its end; when the loop is
\* left without an error, no unprocessed Node is in the graph or the
\* counter has reached the budget; every iteration that returns to the head
\* of the loop has marked the selected Node processed, those for Nodes
\* without directions too.
C27_LoopTerminates ==
    /\ <>(main.pc \in {"done", "crashed"})
    /\ []((main.pc = "output" /\ main.error = "") =>
            \/ Len(unprocessedByAiNodes(nodes, surface)) = 0
            \/ main.processed_counter = MAX_NODES_TO_PROCESS)
    /\ [][(main.pc \in {"selected", "add"} /\ main'.pc = "loop") =>
            nodes'[main.node].isAiProcessed]_vars

\* The run ended without error on the budget, leaving an unprocessed Node,
\* after an iteration for a Node without directions.
C27_Witness ==
    /\ main.pc = "done"
    /\ main.error = ""
    /\ main.processed_counter = MAX_NODES_TO_PROCESS
    /\ \E n \in Range(surface) :
        /\ nodes[n].isAiProcessed
        /\ nodes[n].has_search_directions
        /\ nodes[n].search_directions = <<>>

\* C29 (correlation token): whenever a search request has gone out, the
\* token in its header is the one returned by the directions call that
\* produced the direction identifier of the request, and that call was made
\* for the membership the request carries, for an integer direction and for
\* a SearchDirection alike.
C29_TokenConsistency ==
    expand.request.sent =>
        /\ expand.request.dcall # 0
        /\ expand.request.token = TokenNames[expand.request.dcall]
        /\ expand.calls[expand.request.dcall] = expand.request.items

\* C31 (no unreviewed item in the output): when the final output has been
\* rendered, no Node found through a "partly" direction is in the graph
\* without the Oracle having reviewed its items, also in a run that left the
\* loop through the error path.
C31_PartlyItemsReviewed ==
    (main.pc = "done" /\ main.emitted) =>
        \A n \in main.unreviewed : ~OnSurface(surface, n)

\* C32 (only validated answers): a query sends no more requests than
\* retries; what it returns is a parsed response that the validator of the
\* call accepts; when it raises it returns nothing; and when the passes are
\* used up without an accepted response the next step is the raise.
C32_OnlyValidatedAnswers ==
    /\ [](query.requests <= query.retries)
    /\ [](query.pc = "returned" =>
            /\ query.parsed
            /\ query.error = ""
            /\ validate(query.validator, query.returned))
    /\ [](query.pc = "raised" => (query.error # "" /\ query.returned = NoResponse))
    /\ [][(query.pc = "loop" /\ query.attempt >= query.retries) =>
            query'.pc = "raised"]_vars

\* A query returned a directions answer with a "partly" direction after the
\* validator had rejected an earlier response.
C32_Witness ==
    /\ query.pc = "returned"
    /\ query.validator.kind = "directions"
    /\ query.attempt >= 2
    /\ query.returned.partly # <<>>
    /\ validate(query.validator, query.returned)

====
